---- MODULE Spec2Model ----
(***************************************************************************)
(* Model of the Chronose dashboard (chronose_frontend/src/pages/           *)
(* Dashboard.jsx and services/timeEntries.js): the persisted session timer *)
(* and the entry draft / submit / delete handlers with their remote calls. *)
(*                                                                         *)
(* Time is the wall clock Date.now() in milliseconds.  A date is the       *)
(* number of the UTC day, which is what toISOString().slice(0, 10) names.  *)
(* A nullable value is a sequence of length 0 (null) or 1.                 *)
(***************************************************************************)
EXTENDS Integers, Sequences, FiniteSets, TLC

\* ------------------------------------------------------------------ bounds
\* Number of calendar days the clock ranges over.
MaxDays == 2
\* Largest number of closed sessions kept in the whole store.
MaxSessions == 2
\* Largest number of interval ticks delivered after a check-in or a page load.
MaxTicks == 1
\* Largest number of times the wall clock is set back.
MaxSetBacks == 1

\* ------------------------------------------------------- program constants
MsPerSecond == 1000
MsPerHour == 3600 * MsPerSecond
MsPerDay == 24 * MsPerHour
\* Dashboard.jsx:179  const maxEnd = startMs + 12 * 3600 * 1000
CapMs == 12 * 3600 * 1000

Null == <<>>
Some(x) == <<x>>
IsNull(v) == v = <<>>
Val(v) == v[1]

Max(a, b) == IF a >= b THEN a ELSE b

Days == 0 .. (MaxDays - 1)

\* Instants of one day the clock can show: 01:00:00.000, 01:00:01.500 and
\* 13:00:00.000 (exactly 12h after the first, and exactly 12h before 01:00 of
\* the next day).
Offsets == { MsPerHour, MsPerHour + 1500, 13 * MsPerHour }

Times == { d * MsPerDay + o : d \in Days, o \in Offsets }

\* Dashboard.jsx:44-45  new Date().toISOString().slice(0, 10): the UTC day.
DayOf(t) == t \div MsPerDay

VARIABLES
  now,              \* Date.now()
  setBacks,         \* times the clock was set back (bounds ClockSetBack)
  storage,          \* localStorage['chronose_timer_v1']: Null or Some(content)
  todayISO,         \* todayISO as computed by the last render
  crashed,          \* a render or an effect threw and React unmounted the page
  isRunning, elapsed, lastSession, todayTotal, autoCheckoutBanner,
  ticks,            \* ticks delivered since the counter was last set (bounds Tick)
  selectedDateISO, entryDate, showEntryPanel,
  calendarView,     \* 'week' or 'month'
  tzOffset,         \* local time minus UTC of the browser, in ms
  activeTab,        \* 'timesheet' or 'status': the page shown under the header
  hours, notes, project, task, workErrors,
  entryMode, leaveType, leaveDuration, leaveHours, leaveReason, leaveErrors,
  editingId,
  workEntries, leaveEntries, logsLoading, logsError,
  user,             \* useAuth().user: Null or Some([id |-> ..])
  remoteEnabled,    \* enableRealData && supabase
  schemaReady,      \* the table time_entries exists in the remote store
  failures,         \* requests the remote store failed (bounds them)
  remote,           \* rows of the remote table time_entries
  nextId,           \* id the remote store gives to the next inserted row
  tasks,            \* async handlers waiting for a remote call, in order of start
  requests,         \* handlers started that call the remote store (bounds them)
  gestures,         \* gestures made on the entry form and the lists (bounds them)
  fnCall,           \* a function of the page applied on its own: name and arguments
  fnRet,            \* what that function returned: Null before it returns
  fnAwait,          \* the answer of the client a service is suspended on: Null while none
  lastOp            \* name of the handler that ran last

clockVars == << now, setBacks >>
renderVars == << todayISO, crashed >>
viewVars == << calendarView, tzOffset, activeTab >>
callVars == << fnCall, fnRet, fnAwait >>
timerVars == << isRunning, elapsed, lastSession, autoCheckoutBanner, ticks >>
dateVars == << selectedDateISO, entryDate, todayTotal >>
workDraft == << hours, notes, project, task >>
leaveDraft == << leaveType, leaveDuration, leaveHours, leaveReason >>
errorVars == << workErrors, leaveErrors >>
listVars == << workEntries, leaveEntries, logsLoading, logsError >>
envVars == << user, remoteEnabled, schemaReady >>
netVars == << remote, nextId, tasks, requests, failures >>
formVars == << workDraft, leaveDraft, errorVars, entryMode, editingId, showEntryPanel,
               gestures >>
entryVars == << formVars, listVars, envVars, netVars >>

vars == << clockVars, viewVars, callVars, storage, renderVars, timerVars, dateVars,
          entryVars, lastOp >>

\* ------------------------------------------------------------ timer store
\* Dashboard.jsx:144/149  the default day record.
EmptyDay == [ sessions |-> <<>>, running |-> Null, total |-> 0 ]

\* What the key holds when it is present: a store object written by the page
\* ("object"), or content that came from elsewhere: text JSON.parse rejects
\* ("unparsable"), the JSON texts null, 5 and [] ("null", "number", "array");
\* "unavailable" is a localStorage whose getItem and setItem throw.
ForeignKinds == { "unavailable", "unparsable", "null", "number", "array" }

Content(kind, byDate) == [ kind |-> kind, byDate |-> byDate ]

EmptyStore == Content("object", <<>>)

\* Dashboard.jsx:125-132  raw ? JSON.parse(raw) : { byDate: {} }, and
\* { byDate: {} } when getItem or JSON.parse throws.
\* What localStorage.getItem gives: nothing ("absent") or content of a kind.
KindOf(st) == IF IsNull(st) THEN "absent" ELSE Val(st).kind

loadTimerState(st) ==
  IF KindOf(st) \in { "absent", "unavailable", "unparsable" }
  THEN EmptyStore
  ELSE Val(st)

\* Dashboard.jsx:143-144  data.byDate of null raises a TypeError.
getDayStateThrows(st) == loadTimerState(st).kind = "null"

\* Dashboard.jsx:151  data.byDate = ... on null or on a number raises a
\* TypeError (module code is strict).
setDayStateThrows(st) == loadTimerState(st).kind \in { "null", "number" }

\* Dashboard.jsx:142-145
getDayState(st, iso) ==
  LET data == loadTimerState(st)
  IN  IF iso \in DOMAIN data.byDate THEN data.byDate[iso] ELSE EmptyDay

\* Variant that writes the record of this date only.
setDayStateOnlyThisDate(st, iso, next) ==
  Some(Content("object", [ d \in {iso} |-> next ]))

\* Dashboard.jsx:147-154  the key after setDayState(iso, prev => next):
\* saveTimerState (134-140) writes JSON.stringify(data), which is "[]" for an
\* array whatever property it was given, and swallows the error of setItem.
setDayState(st, iso, next) ==
  LET data == loadTimerState(st)
      keys == IF data.byDate = <<>> THEN {} ELSE DOMAIN data.byDate
  IN  IF KindOf(st) = "unavailable"
      THEN st
      ELSE IF data.kind = "array"
           THEN Some(Content("array", <<>>))
           ELSE Some(Content("object",
                             [ d \in keys \cup {iso} |->
                                 IF d = iso THEN next ELSE data.byDate[d] ]))

\* Variant without the clamp at zero.
SessionSecondsSigned(s) == (s.end - s.start) \div MsPerSecond

\* Math.max(0, Math.floor((s.end - s.start) / 1000)); \div rounds down as
\* Math.floor does.
SessionSeconds(s) == Max(0, (s.end - s.start) \div MsPerSecond)

RECURSIVE SessionsTotal(_)
\* Dashboard.jsx:168/200/261/269  (sessions || []).reduce(...)
SessionsTotal(sessions) ==
  IF sessions = <<>> THEN 0
  ELSE SessionsTotal(SubSeq(sessions, 1, Len(sessions) - 1))
       + SessionSeconds(sessions[Len(sessions)])

\* Dashboard.jsx:166-170  the value recalcTodayTotal(iso) passes to setTodayTotal.
recalcTodayTotal(st, iso) == SessionsTotal(getDayState(st, iso).sessions)

StoredDays(st) ==
  LET data == loadTimerState(st)
  IN  IF data.byDate = <<>> THEN {} ELSE DOMAIN data.byDate

RunningDays(st) == { d \in StoredDays(st) : ~IsNull(getDayState(st, d).running) }

RECURSIVE SumLen(_, _)
SumLen(st, S) ==
  IF S = {} THEN 0
  ELSE LET d == CHOOSE x \in S : TRUE
       IN  Len(getDayState(st, d).sessions) + SumLen(st, S \ {d})

ClosedCount(st) == SumLen(st, StoredDays(st))

\* ------------------------------------------------------------ JS helpers
\* A JS number: an integer or NaN.
Num(n) == [ isNaN |-> FALSE, n |-> n ]
NaN == [ isNaN |-> TRUE, n |-> 0 ]

\* The strings an hours field is given.
HourStrings == { "", "0", "4", "8", "9", "24", "25", "-1", "abc" }

\* The value of one decimal digit, -1 for any other character.
DigitValue(c) ==
  CASE c = "0" -> 0 [] c = "1" -> 1 [] c = "2" -> 2 [] c = "3" -> 3 [] c = "4" -> 4
    [] c = "5" -> 5 [] c = "6" -> 6 [] c = "7" -> 7 [] c = "8" -> 8 [] c = "9" -> 9
    [] OTHER -> 0 - 1

RECURSIVE IsDigits(_)
\* s is not empty and holds decimal digits only.
IsDigits(s) ==
  /\ s # ""
  /\ DigitValue(SubSeq(s, 1, 1)) >= 0
  /\ (Len(s) = 1 \/ IsDigits(Tail(s)))

RECURSIVE DigitsValue(_, _)
\* The number the digits of s write after those that gave acc.
DigitsValue(s, acc) ==
  IF s = "" THEN acc
  ELSE DigitsValue(Tail(s), acc * 10 + DigitValue(SubSeq(s, 1, 1)))

\* A character String.prototype.trim removes.
IsSpace(c) == c \in { " ", "\t", "\n", "\r" }

RECURSIVE TrimStart(_)
TrimStart(s) ==
  IF s # "" /\ IsSpace(SubSeq(s, 1, 1)) THEN TrimStart(Tail(s)) ELSE s

RECURSIVE TrimEnd(_)
TrimEnd(s) ==
  IF s # "" /\ IsSpace(SubSeq(s, Len(s), Len(s)))
  THEN TrimEnd(SubSeq(s, 1, Len(s) - 1)) ELSE s

\* s.trim()
Trim(s) == TrimEnd(TrimStart(s))

\* Number(s) of a text: white space around it is dropped, the empty text is
\* 0, a decimal integer with or without a sign is its value, any other text
\* of the inputs is NaN (fractions and exponents are not among the inputs).
Number(s) ==
  LET t == Trim(s)
  IN  IF t = "" THEN Num(0)
      ELSE IF IsDigits(t) THEN Num(DigitsValue(t, 0))
      ELSE IF SubSeq(t, 1, 1) \in { "-", "+" } /\ IsDigits(Tail(t))
           THEN Num(IF SubSeq(t, 1, 1) = "-" THEN 0 - DigitsValue(Tail(t), 0)
                    ELSE DigitsValue(Tail(t), 0))
           ELSE NaN

\* One decimal digit.
Digit(d) ==
  CASE d = 0 -> "0" [] d = 1 -> "1" [] d = 2 -> "2" [] d = 3 -> "3" [] d = 4 -> "4"
    [] d = 5 -> "5" [] d = 6 -> "6" [] d = 7 -> "7" [] d = 8 -> "8" [] d = 9 -> "9"

RECURSIVE Decimal(_)
\* The decimal digits of a natural number.
Decimal(n) == IF n < 10 THEN Digit(n) ELSE Decimal(n \div 10) \o Digit(n % 10)

\* String(n) / `${n}` of an integer.
String(n) == IF n < 0 THEN "-" \o Decimal(0 - n) ELSE Decimal(n)

\* The value SQL NULL / JS null of a text column.
DbNull == "<null>"
\* !s for a text value.
Falsy(s) == s = "" \/ s = DbNull


X10 == "xxxxxxxxxx"
X50 == X10 \o X10 \o X10 \o X10 \o X10
X300 == X50 \o X50 \o X50 \o X50 \o X50 \o X50
X500 == X300 \o X50 \o X50 \o X50 \o X50

\* { ...a, ...b } for objects as functions from keys to values.
Spread(a, b) ==
  LET da == IF a = <<>> THEN {} ELSE DOMAIN a
      db == IF b = <<>> THEN {} ELSE DOMAIN b
  IN  [ k \in da \cup db |-> IF k \in db THEN b[k] ELSE a[k] ]

Keys(o) == IF o = <<>> THEN {} ELSE DOMAIN o

RECURSIVE Filter(_, _)
\* list.filter(it => it.id !== id)
Filter(list, id) ==
  IF list = <<>> THEN <<>>
  ELSE IF Head(list).id = id THEN Filter(Tail(list), id)
       ELSE << Head(list) >> \o Filter(Tail(list), id)

\* list.find(x => x.id === id), Null when there is none.
Find(list, id) ==
  IF \E i \in 1 .. Len(list) : list[i].id = id
  THEN Some(list[CHOOSE i \in 1 .. Len(list) :
                   list[i].id = id /\ \A j \in 1 .. (i - 1) : list[j].id # id])
  ELSE Null

\* ------------------------------------------------- services/timeEntries.js
\* part_003:33-37  err(message, code)
err(message, code) == Some([ message |-> message, code |-> code ])

\* The error objects the Supabase client returns in { error }.
MissingTableError == [ message |-> "relation time_entries does not exist", code |-> "42P01" ]
MissingRelationError == [ message |-> "Relation time_entries does not exist", code |-> "404" ]
MissingCodeError == [ message |-> "time_entries is undefined", code |-> "42P01" ]
TableNotExistError == [ message |-> "table time_entries not exist", code |-> "404" ]
DbError == [ message |-> "permission denied", code |-> "42501" ]
NoMessageError == [ message |-> "", code |-> "500" ]
NoRowError == [ message |-> "no rows returned", code |-> "PGRST116" ]

\* The errors with which the remote store answers while the table
\* time_entries does not exist.
SchemaMissingErrors ==
  { MissingTableError, MissingRelationError, MissingCodeError, TableNotExistError }

\* What the client does with one request: the store serves it, the client
\* returns an error object, or the client throws (message "" also stands for
\* a thrown value without a message).
Served == [ kind |-> "ok" ]
Returned(error) == [ kind |-> "error", error |-> error ]
Throws(message) == [ kind |-> "throws", message |-> message ]

RawOutcomes ==
  { Served } \cup { Returned(e) : e \in SchemaMissingErrors \cup { DbError, NoMessageError } }
             \cup { Throws(m) : m \in { "Failed to fetch", "" } }

\* s.toLowerCase() on the messages of the errors.
ToLowerCase(s) ==
  IF s = "Relation time_entries does not exist" THEN "relation time_entries does not exist"
  ELSE s

\* s.includes(part) on the lowered messages of the errors.
Includes(s, part) ==
  CASE s = "relation time_entries does not exist" ->
         part \in { "relation", "does not exist", "not exist" }
    [] s = "table time_entries not exist" -> part \in { "table", "not exist" }
    [] OTHER -> FALSE

\* part_003:101-108
isMissingTable(error) ==
  LET msg == ToLowerCase(error.message)
  IN  \/ (Includes(msg, "relation") /\ Includes(msg, "does not exist"))
      \/ (Includes(msg, "table") /\ Includes(msg, "not exist"))
      \/ error.code = "42P01"

\* Variant that returns every error of the client as it is.
ServiceErrorPassThrough(error) ==
  IF isMissingTable(error) THEN Some(error)
  ELSE Some(error)

\* part_003:126-131, 185-190, 241-246, 262-267  the error a service returns for
\* an error of the client.
ServiceError(error) ==
  IF isMissingTable(error) THEN err("Data not available yet", "missing_schema")
  ELSE Some(error)

\* part_003:133-135, 192-194, 248-250, 269-271  catch (e): the error a service
\* returns when the client throws, err(e?.message || fallback).
CaughtError(message, fallback) ==
  err(IF message = "" THEN fallback ELSE message, "client_unavailable")

\* The error a service returns when the client did not serve the request.
ClientFailure(outcome, fallback) ==
  IF outcome.kind = "throws" THEN CaughtError(outcome.message, fallback)
  ELSE ServiceError(outcome.error)

FeatureDisabled == err("Data not available yet", "feature_disabled")

\* part_003:79-96
mapRow(r) ==
  [ id |-> r.id, user_id |-> r.user_id, date |-> r.date,
    project |-> IF Falsy(r.project) THEN "" ELSE r.project,
    task |-> IF Falsy(r.task) THEN "" ELSE r.task,
    hours |-> r.hours,
    notes |-> IF Falsy(r.notes) THEN "" ELSE r.notes,
    status |-> IF Falsy(r.status) THEN "draft" ELSE r.status,
    type |-> IF Falsy(r.type) THEN "work" ELSE r.type,
    leave_type |-> r.leave_type, leave_duration |-> r.leave_duration,
    leave_reason |-> r.leave_reason ]

RECURSIVE OrderByDateDesc(_)
\* part_003:124  .order('date', { ascending: false }): every order in which the
\* store may return the rows, those of one date in any order.
OrderByDateDesc(rows) ==
  IF rows = {} THEN { <<>> }
  ELSE LET latest == { x \in rows : \A y \in rows : y.date <= x.date }
       IN  UNION { { << r >> \o rest : rest \in OrderByDateDesc(rows \ {r}) } :
                   r \in latest }

RECURSIVE MapRows(_)
MapRows(rows) ==
  IF rows = <<>> THEN <<>> ELSE << mapRow(Head(rows)) >> \o MapRows(Tail(rows))

\* part_003:114-136  listTimeEntriesWithType(userId, type) on the table rows:
\* the results it may return, one for every order the store may answer in.
listTimeEntriesWithType(rows, enabled, outcome, userId, type) ==
  IF ~enabled THEN { [ data |-> <<>>, error |-> FeatureDisabled ] }
  ELSE IF outcome.kind # "ok"
       THEN { [ data |-> <<>>,
                error |-> ClientFailure(outcome, "Failed to fetch time entries") ] }
       ELSE { [ data |-> MapRows(ordered), error |-> Null ] :
              ordered \in OrderByDateDesc(
                            { r \in rows : r.user_id = userId /\ r.type = type }) }

\* part_003:157-183  the row createOrSaveDraftEntry inserts.
InsertPayload(entry, mode, status) ==
  IF mode = "work"
  THEN [ user_id |-> entry.user_id, date |-> entry.date,
         project |-> IF Falsy(entry.project) THEN DbNull ELSE entry.project,
         task |-> IF Falsy(entry.task) THEN DbNull ELSE entry.task,
         hours |-> entry.hours,
         notes |-> IF Falsy(entry.notes) THEN DbNull ELSE entry.notes,
         status |-> status, type |-> "work",
         leave_type |-> DbNull, leave_duration |-> DbNull, leave_reason |-> DbNull ]
  ELSE [ user_id |-> entry.user_id, date |-> entry.date,
         project |-> DbNull, task |-> DbNull,
         hours |-> entry.leave_hours,
         notes |-> DbNull,
         status |-> status, type |-> "leave",
         leave_type |-> entry.leave_type, leave_duration |-> entry.leave_duration,
         leave_reason |-> IF Falsy(entry.leave_reason) THEN DbNull
                          ELSE entry.leave_reason ]

\* part_003:151-195  createOrSaveDraftEntry: the result and the table afterwards.
createOrSaveDraftEntry(rows, enabled, outcome, id, entry, mode, status) ==
  IF ~enabled THEN [ data |-> Null, error |-> FeatureDisabled, rows |-> rows ]
  ELSE IF mode \notin { "work", "leave" }
       THEN [ data |-> Null, error |-> err("Invalid entry mode", "validation_error"),
              rows |-> rows ]
  ELSE IF outcome.kind # "ok"
       THEN [ data |-> Null,
              error |-> ClientFailure(outcome, "Failed to create/save entry"),
              rows |-> rows ]
       ELSE LET row == Spread([ id |-> id ], InsertPayload(entry, mode, status))
            IN  [ data |-> Some(mapRow(row)), error |-> Null,
                  rows |-> rows \cup {row} ]

\* part_003:228-239  the columns updateTimeEntry writes: user_id and
\* leave_hours are not among them.
UpdateColumns == { "project", "task", "hours", "notes", "date", "status", "type",
                   "leave_type", "leave_duration", "leave_reason" }

\* part_003:221-251  updateTimeEntry(id, patch): .single() reports an error
\* when no row has the id.
updateTimeEntry(rows, enabled, outcome, id, patch) ==
  IF ~enabled THEN [ data |-> Null, error |-> FeatureDisabled, rows |-> rows ]
  ELSE IF outcome.kind # "ok"
       THEN [ data |-> Null,
              error |-> ClientFailure(outcome, "Failed to update time entry"),
              rows |-> rows ]
       ELSE IF ~\E r \in rows : r.id = id
            THEN [ data |-> Null, error |-> ServiceError(NoRowError), rows |-> rows ]
            ELSE LET old == CHOOSE r \in rows : r.id = id
                     updates == [ k \in Keys(patch) \cap UpdateColumns |-> patch[k] ]
                     row == Spread(old, updates)
                 IN  [ data |-> Some(mapRow(row)), error |-> Null,
                       rows |-> (rows \ {old}) \cup {row} ]

\* Variant that deletes whether the remote store is enabled or not.
deleteTimeEntryUnflagged(rows, enabled, outcome, id) ==
  IF FALSE THEN [ data |-> Null, error |-> FeatureDisabled, rows |-> rows ]
  ELSE IF outcome.kind # "ok"
       THEN [ data |-> Null,
              error |-> ClientFailure(outcome, "Failed to delete time entry"),
              rows |-> rows ]
       ELSE [ data |-> Some([ id |-> id ]), error |-> Null,
              rows |-> { r \in rows : r.id # id } ]

\* part_003:254-272  deleteTimeEntry(id)
deleteTimeEntry(rows, enabled, outcome, id) ==
  IF ~enabled THEN [ data |-> Null, error |-> FeatureDisabled, rows |-> rows ]
  ELSE IF outcome.kind # "ok"
       THEN [ data |-> Null,
              error |-> ClientFailure(outcome, "Failed to delete time entry"),
              rows |-> rows ]
       ELSE [ data |-> Some([ id |-> id ]), error |-> Null,
              rows |-> { r \in rows : r.id # id } ]

\* Variant whose upper bound of the hours is exclusive.
WorkFieldErrorBelow24(values, k) ==
  CASE k = "date" -> IF IsNull(values.date) THEN "Please select a date." ELSE ""
    [] k = "hours" ->
         IF values.hours = "" THEN "Please enter hours worked."
         ELSE IF Number(values.hours).isNaN THEN "Hours must be a number."
         ELSE IF Number(values.hours).n < 0 THEN "Hours cannot be negative."
         ELSE IF Number(values.hours).n >= 24 THEN "Hours cannot exceed 24."
         ELSE ""
    [] k = "notes" ->
         IF values.notes # "" /\ Len(values.notes) > 500
         THEN "Notes must be 500 characters or fewer." ELSE ""

\* part_003:279-296  validateEntryFields(values).errors: only the failing keys.
WorkFieldError(values, k) ==
  CASE k = "date" -> IF IsNull(values.date) THEN "Please select a date." ELSE ""
    [] k = "hours" ->
         IF values.hours = "" THEN "Please enter hours worked."
         ELSE IF Number(values.hours).isNaN THEN "Hours must be a number."
         ELSE IF Number(values.hours).n < 0 THEN "Hours cannot be negative."
         ELSE IF Number(values.hours).n > 24 THEN "Hours cannot exceed 24."
         ELSE ""
    [] k = "notes" ->
         IF values.notes # "" /\ Len(values.notes) > 500
         THEN "Notes must be 500 characters or fewer." ELSE ""

\* Variant that reports every draft as valid.
validateEntryFieldsAlwaysValid(values) ==
  LET failing == { k \in { "date", "hours", "notes" } : WorkFieldError(values, k) # "" }
      errors == [ k \in failing |-> WorkFieldError(values, k) ]
  IN  [ errors |-> errors, valid |-> TRUE ]

validateEntryFields(values) ==
  LET failing == { k \in { "date", "hours", "notes" } : WorkFieldError(values, k) # "" }
      errors == [ k \in failing |-> WorkFieldError(values, k) ]
  IN  [ errors |-> errors, valid |-> failing = {} ]

\* Dashboard.jsx:75
LEAVE_MAX_HOURS == 8

\* Variant that asks for the hours of a leave of any duration.
validateLeaveHoursAlways(date, lType, lDuration, lReason, lHours) ==
  [ date |-> IF IsNull(date) THEN "Please select a date." ELSE "",
    leaveType |-> IF lType = "" THEN "Please select a leave type." ELSE "",
    leaveDuration |-> IF lDuration = "" THEN "Please select a duration." ELSE "",
    leaveReason |->
      IF lReason = "" \/ Len(Trim(lReason)) = 0
      THEN "Please provide a reason for your leave."
      ELSE IF Len(lReason) > 300 THEN "Reason must be 300 characters or fewer."
      ELSE "",
    leaveHours |->
      IF lDuration # ""
      THEN IF lHours = "" THEN "Please enter partial hours."
           ELSE IF Number(lHours).isNaN THEN "Hours must be a number."
           ELSE IF Number(lHours).n < 0 THEN "Hours cannot be negative."
           ELSE IF Number(lHours).n > LEAVE_MAX_HOURS THEN "Hours cannot exceed 8."
           ELSE ""
      ELSE "" ]

\* Dashboard.jsx:521-543  validateLeave() on the form state.
validateLeave(date, lType, lDuration, lReason, lHours) ==
  [ date |-> IF IsNull(date) THEN "Please select a date." ELSE "",
    leaveType |-> IF lType = "" THEN "Please select a leave type." ELSE "",
    leaveDuration |-> IF lDuration = "" THEN "Please select a duration." ELSE "",
    leaveReason |->
      IF lReason = "" \/ Len(Trim(lReason)) = 0
      THEN "Please provide a reason for your leave."
      ELSE IF Len(lReason) > 300 THEN "Reason must be 300 characters or fewer."
      ELSE "",
    leaveHours |->
      IF lDuration = "partial"
      THEN IF lHours = "" THEN "Please enter partial hours."
           ELSE IF Number(lHours).isNaN THEN "Hours must be a number."
           ELSE IF Number(lHours).n < 0 THEN "Hours cannot be negative."
           ELSE IF Number(lHours).n > LEAVE_MAX_HOURS THEN "Hours cannot exceed 8."
           ELSE ""
      ELSE "" ]

\* Object.values(errs).some(Boolean)
HasError(errs) == \E k \in DOMAIN errs : errs[k] # ""

\* Dashboard.jsx:577
canEditOrDelete(status) == status # "approved"

\* ------------------------------------------------------------ calendar dates
\* A date yyyy-mm-dd is the number of its day, day 0 being Monday 2024-01-01.
\* A Date object is an instant: the UTC day it falls on and the ms since
\* 00:00 UTC of that day.
DateAt(day, ms) == [ day |-> day + (ms \div MsPerDay), ms |-> ms % MsPerDay ]

\* new Date() at clock reading t.
DateOf(t) == DateAt(0, t)

\* new Date(iso) for a date-only string: 00:00 UTC of that day.
ParseISO(iso) == DateAt(iso, 0)

\* The local calendar day an instant falls on.
LocalDay(d, tz) == d.day + ((d.ms + tz) \div MsPerDay)

\* 00:00 local time of a local calendar day.
LocalMidnight(day, tz) == DateAt(day, 0 - tz)

\* Dashboard.jsx:274-279  toISO(d): the local date of d.
toISO(d, tz) == LocalDay(d, tz)

\* d.getDay(): 0 = Sunday .. 6 = Saturday, in local time.
getDay(d, tz) == (LocalDay(d, tz) + 1) % 7

\* Variant whose weeks start on Sunday.
getStartOfWeekFromSunday(d, tz) ==
  LET diffToMon == getDay(d, tz)
  IN  LocalMidnight(LocalDay(d, tz) - diffToMon, tz)

\* Dashboard.jsx:290-298
getStartOfWeek(d, tz) ==
  LET diffToMon == (getDay(d, tz) + 6) % 7
  IN  LocalMidnight(LocalDay(d, tz) - diffToMon, tz)

\* Dashboard.jsx:300-306
weekDaysFrom(start, tz) ==
  [ i \in 1 .. 7 |-> LocalMidnight(LocalDay(start, tz) + (i - 1), tz) ]

\* The months the calendar is drawn for: month 0 is December 2023, month 1
\* January 2024, and so on for MaxMonths months after month 0.
MaxMonths == 12

\* 1 = January .. 12 = December.
MonthOfYear(m) == ((m + 11) % 12) + 1

\* Days of month m; February 2024 is the one leap February in range.
DaysInMonth(m) ==
  IF MonthOfYear(m) = 2 THEN (IF m = 2 THEN 29 ELSE 28)
  ELSE IF MonthOfYear(m) \in { 4, 6, 9, 11 } THEN 30 ELSE 31

RECURSIVE FirstOfMonth(_)
\* The day number of the 1st of month m.
FirstOfMonth(m) ==
  IF m = 0 THEN 0 - DaysInMonth(0) ELSE FirstOfMonth(m - 1) + DaysInMonth(m - 1)

\* The month a day falls in.
MonthOf(day) ==
  CHOOSE m \in 0 .. (MaxMonths + 1) : FirstOfMonth(m) <= day /\ day < FirstOfMonth(m + 1)

\* d.setDate(1): the first day of the local month of a day.
MonthStart(day) == FirstOfMonth(MonthOf(day))

\* Variant with five rows of seven cells.
getMonthGridFiveRows(d, tz) ==
  LET firstDay == LocalMidnight(MonthStart(LocalDay(d, tz)), tz)
      firstDayWeekday == (getDay(firstDay, tz) + 6) % 7
      gridStart == LocalDay(firstDay, tz) - firstDayWeekday
  IN  [ i \in 1 .. 35 |-> LocalMidnight(gridStart + (i - 1), tz) ]

\* Dashboard.jsx:308-321
getMonthGrid(d, tz) ==
  LET firstDay == LocalMidnight(MonthStart(LocalDay(d, tz)), tz)
      firstDayWeekday == (getDay(firstDay, tz) + 6) % 7
      gridStart == LocalDay(firstDay, tz) - firstDayWeekday
  IN  [ i \in 1 .. 42 |-> LocalMidnight(gridStart + (i - 1), tz) ]

\* Dashboard.jsx:324-328  selectedDate, weekStart, weekDates.
weekDates(selected, tz) == weekDaysFrom(getStartOfWeek(ParseISO(selected), tz), tz)

monthGridDates(selected, tz) == getMonthGrid(ParseISO(selected), tz)

\* Dashboard.jsx:1046-1048, 1079-1081  iso = toISO(d) of the cells shown.
VisibleDates(view, selected, tz) ==
  LET cells == IF view = "week" THEN weekDates(selected, tz)
               ELSE monthGridDates(selected, tz)
  IN  { toISO(cells[i], tz) : i \in DOMAIN cells }

\* ------------------------------------------------------------------- init
UserId == "u1"

\* AuthContext.jsx:46-49  the user object of a session.  ref stands for the
\* identity of the object: every auth event hands over a new object, and the
\* effects that depend on [user] compare by identity.
UserObject(id, ref) == [ id |-> id, ref |-> ref ]

\* The rows of the remote table when the dashboard is first opened.
InitialRows ==
  { [ id |-> 1, user_id |-> UserId, date |-> 0, project |-> "p", task |-> DbNull,
      hours |-> 4, notes |-> DbNull, status |-> "draft", type |-> "work",
      leave_type |-> DbNull, leave_duration |-> DbNull, leave_reason |-> DbNull ],
    [ id |-> 2, user_id |-> UserId, date |-> MaxDays - 1, project |-> DbNull,
      task |-> "t", hours |-> 8, notes |-> "n", status |-> "submitted", type |-> "work",
      leave_type |-> DbNull, leave_duration |-> DbNull, leave_reason |-> DbNull ],
    [ id |-> 3, user_id |-> UserId, date |-> 0, project |-> DbNull, task |-> DbNull,
      hours |-> 4, notes |-> DbNull, status |-> "submitted", type |-> "leave",
      leave_type |-> "sick", leave_duration |-> "partial", leave_reason |-> "r" ] }

FirstNewId == Cardinality(InitialRows) + 1

\* Dashboard.jsx:57, 68-74, 383, 389-395  the initial / cleared error objects.
NoWorkErrors == [ hours |-> "", date |-> "" ]
NoLeaveErrors == [ date |-> "", leaveType |-> "", leaveDuration |-> "",
                   leaveReason |-> "", leaveHours |-> "" ]

ListCall(type, userId) == [ op |-> "list", type |-> type, userId |-> userId ]

\* live: the component instance that started the handler is still mounted, so
\* React applies the state the handler sets.
NewTask(kind, call, cap) ==
  [ kind |-> kind, step |-> 1, stage |-> "call", call |-> call, res |-> <<>>,
    cap |-> cap, live |-> TRUE ]

\* Dashboard.jsx:89-115  fetchAll up to its first await.
FetchAllTask(u) ==
  NewTask("fetchAll", ListCall("work", Val(u).id), [ user |-> u, mounted |-> TRUE ])

\* Dashboard.jsx:114  the cleanup of the fetchAll effect: mounted = false in
\* every fetchAll started before.
RECURSIVE Unmounted(_)
Unmounted(ts) ==
  IF ts = << >> THEN << >>
  ELSE << IF Head(ts).kind = "fetchAll"
          THEN [ Head(ts) EXCEPT !.cap.mounted = FALSE ]
          ELSE Head(ts) >> \o Unmounted(Tail(ts))

\* ProtectedRoute.jsx:22-26  the dashboard is unmounted: the cleanup of its
\* effects runs and React ignores what the handlers under way set from now on.
Detached(ts) ==
  [ k \in 1 .. Len(ts) |-> [ Unmounted(ts)[k] EXCEPT !.live = FALSE ] ]

InitForm(tz, c, rows, typed) ==
  /\ fnCall = c
  /\ fnRet = Null
  /\ fnAwait = Null
  /\ now = MsPerHour
  /\ tzOffset = tz
  /\ calendarView = "week"
  /\ activeTab = "timesheet"
  /\ setBacks = 0
  /\ storage = Null
  /\ todayISO = DayOf(MsPerHour)
  /\ crashed = FALSE
  /\ isRunning = FALSE
  /\ elapsed = 0
  /\ lastSession = 0
  /\ todayTotal = 0
  /\ autoCheckoutBanner = Null
  /\ ticks = 0
  /\ selectedDateISO = DayOf(MsPerHour)
  /\ entryDate = DayOf(MsPerHour)
  /\ showEntryPanel = TRUE
  /\ hours = typed
  /\ notes = ""
  /\ project = ""
  /\ task = ""
  /\ workErrors = NoWorkErrors
  /\ entryMode = "work"
  /\ leaveType = "casual"
  /\ leaveDuration = "full"
  /\ leaveHours = ""
  /\ leaveReason = ""
  /\ leaveErrors = NoLeaveErrors
  /\ editingId = Null
  /\ workEntries = <<>>
  /\ leaveEntries = <<>>
  /\ logsLoading = TRUE
  /\ logsError = ""
  /\ user = Some(UserObject(UserId, 0))
  /\ remoteEnabled \in BOOLEAN
  /\ schemaReady \in (IF remoteEnabled THEN BOOLEAN ELSE { TRUE })
  /\ failures = 0
  /\ remote = rows
  /\ nextId = Cardinality(rows) + 1
  /\ tasks = << FetchAllTask(Some(UserObject(UserId, 0))) >>
  /\ requests = 0
  /\ gestures = 0
  /\ lastOp = "init"

\* ---------------------------------------------------------------- actions
\* The page opened on the rows the remote store holds at first.

\* The state after construction: an empty hours field.
InitOf(tz, c, rows) == InitForm(tz, c, rows, "")

InitWith(tz, c) == InitOf(tz, c, InitialRows)

\* The page opened in a browser tz ms ahead of UTC.
InitIn(tz) == InitWith(tz, Null)

\* The page opened in a browser whose local time is UTC.
Init == InitIn(0)

\* ProtectedRoute.jsx:22-26  the dashboard is on the screen: a user is signed
\* in and no render threw.
Mounted == ~crashed /\ ~IsNull(user)

\* A state change renders the component again, which recomputes todayISO
\* (Dashboard.jsx:44-45).
\* The calendar cells read the timer state (1050, 1083); the Status page
\* (955) reads none.
RenderThrowsOn(tab) == tab = "timesheet" /\ getDayStateThrows(storage)

RenderOn(tab) ==
  /\ Mounted
  /\ todayISO' = DayOf(now)
  /\ crashed' = RenderThrowsOn(tab)

RenderThrows == RenderThrowsOn(activeTab)

Render == RenderOn(activeTab)

\* Dashboard.jsx:955  the Timesheet page is the one shown.
OnTimesheet == Mounted /\ activeTab = "timesheet"

\* Dashboard.jsx:955, 1123  the entry panel is on the page.
PanelShown == OnTimesheet /\ showEntryPanel

\* setSelectedDateISO(d) with the effects that depend on selectedDateISO:
\* Dashboard.jsx:118-120 (entryDate) and 267-271 (the total shown).
SelectTo(d) ==
  /\ selectedDateISO' = d
  /\ IF d # selectedDateISO
     THEN /\ entryDate' = d
          /\ todayTotal' = SessionsTotal(getDayState(storage, d).sessions)
     ELSE UNCHANGED << entryDate, todayTotal >>

\* The wall clock moves forward while nothing is rendered.
ClockAdvance ==
  /\ \E t \in Times : t > now /\ now' = t
  /\ lastOp' = "clock"
  /\ UNCHANGED << setBacks, viewVars, callVars, storage, renderVars, timerVars, dateVars,
                  entryVars >>

\* The wall clock is set back to the instant before (Date.now() is not
\* monotonic).
ClockSetBack ==
  /\ setBacks < MaxSetBacks
  /\ setBacks' = setBacks + 1
  /\ \E t \in Times : /\ t < now
                       /\ \A u \in Times : u < now => u <= t
                       /\ now' = t
  /\ lastOp' = "clock"
  /\ UNCHANGED << viewVars, callVars, storage, renderVars, timerVars, dateVars, entryVars >>

\* Variant that also counts the second into the total shown.
TickCountsTotal ==
  /\ isRunning
  /\ ticks < MaxTicks
  /\ elapsed' = elapsed + 1
  /\ ticks' = ticks + 1
  /\ todayTotal' = todayTotal + 1
  /\ Render
  /\ lastOp' = "tick"
  /\ UNCHANGED << clockVars, viewVars, callVars, storage, isRunning, lastSession, autoCheckoutBanner,
                  selectedDateISO, entryDate, entryVars >>

\* Dashboard.jsx:215-225  the interval callback setElapsed(s => s + 1).
Tick ==
  /\ isRunning
  /\ ticks < MaxTicks
  /\ elapsed' = elapsed + 1
  /\ ticks' = ticks + 1
  /\ Render
  /\ lastOp' = "tick"
  /\ UNCHANGED << clockVars, viewVars, callVars, storage, isRunning, lastSession, autoCheckoutBanner,
                  dateVars, entryVars >>

\* Variant whose write keeps the record of its own date only.
handleCheckInDropsOtherDates ==
  /\ ~crashed
  /\ ClosedCount(storage) + Cardinality(RunningDays(storage)) < MaxSessions
  /\ LET iso == todayISO
         day == getDayState(storage, iso)
     IN  IF isRunning
         THEN /\ lastOp' = "checkIn"
              /\ UNCHANGED << storage, isRunning, elapsed, ticks, renderVars >>
         ELSE IF getDayStateThrows(storage)
                   \/ (IsNull(day.running) /\ setDayStateThrows(storage))
              THEN /\ lastOp' = "checkIn:throws"
                   /\ UNCHANGED << storage, isRunning, elapsed, ticks, renderVars >>
              ELSE /\ lastOp' = "checkIn"
                   /\ IF IsNull(day.running)
                      THEN /\ storage' = setDayStateOnlyThisDate(storage, iso,
                                  [ day EXCEPT !.running = Some([ start |-> now ]) ])
                           /\ isRunning' = TRUE
                           /\ elapsed' = 0
                           /\ ticks' = 0
                           /\ Render
                      ELSE UNCHANGED << storage, isRunning, elapsed, ticks, renderVars >>
  /\ UNCHANGED << clockVars, viewVars, callVars, lastSession, autoCheckoutBanner, dateVars, entryVars >>

\* Dashboard.jsx:227-239
handleCheckIn ==
  /\ ~crashed
  /\ ClosedCount(storage) + Cardinality(RunningDays(storage)) < MaxSessions
  /\ LET iso == todayISO
         day == getDayState(storage, iso)
     IN  IF isRunning
         THEN /\ lastOp' = "checkIn"
              /\ UNCHANGED << storage, isRunning, elapsed, ticks, renderVars >>
         ELSE IF getDayStateThrows(storage)
                   \/ (IsNull(day.running) /\ setDayStateThrows(storage))
              THEN /\ lastOp' = "checkIn:throws"
                   /\ UNCHANGED << storage, isRunning, elapsed, ticks, renderVars >>
              ELSE /\ lastOp' = "checkIn"
                   /\ IF IsNull(day.running)
                      THEN /\ storage' = setDayState(storage, iso,
                                  [ day EXCEPT !.running = Some([ start |-> now ]) ])
                           /\ isRunning' = TRUE
                           /\ elapsed' = 0
                           /\ ticks' = 0
                           /\ Render
                      ELSE UNCHANGED << storage, isRunning, elapsed, ticks, renderVars >>
  /\ UNCHANGED << clockVars, viewVars, callVars, lastSession, autoCheckoutBanner, dateVars, entryVars >>

\* Variant that clears the last-session value when there is nothing to close.
handleCheckOutClearsLast ==
  /\ ~crashed
  /\ LET iso == todayISO
         current == getDayState(storage, iso)
     IN  IF ~isRunning
         THEN /\ lastOp' = "checkOut"
              /\ UNCHANGED << storage, isRunning, lastSession, elapsed, todayTotal,
                              renderVars >>
         ELSE IF getDayStateThrows(storage)
              THEN /\ lastOp' = "checkOut:throws"
                   /\ UNCHANGED << storage, isRunning, lastSession, elapsed, todayTotal,
                                   renderVars >>
              ELSE /\ lastOp' = "checkOut"
                   /\ IF ~IsNull(current.running) /\ Val(current.running).start # 0
                      THEN LET startMs == Val(current.running).start
                               dur == Max(0, (now - startMs) \div MsPerSecond)
                               next == [ current EXCEPT
                                           !.sessions = Append(current.sessions,
                                                          [ start |-> startMs, end |-> now ]),
                                           !.running = Null ]
                           IN  /\ storage' = setDayState(storage, iso, next)
                               /\ isRunning' = FALSE
                               /\ lastSession' = dur
                               /\ elapsed' = 0
                               /\ todayTotal' = SessionsTotal(next.sessions)
                               /\ Render
                      ELSE /\ lastSession' = 0
                           /\ UNCHANGED << storage, isRunning, elapsed, todayTotal,
                                           renderVars >>
  /\ UNCHANGED << clockVars, viewVars, callVars, autoCheckoutBanner, ticks, selectedDateISO, entryDate,
                  entryVars >>

\* Dashboard.jsx:241-264
handleCheckOut ==
  /\ ~crashed
  /\ LET iso == todayISO
         current == getDayState(storage, iso)
     IN  IF ~isRunning
         THEN /\ lastOp' = "checkOut"
              /\ UNCHANGED << storage, isRunning, lastSession, elapsed, todayTotal,
                              renderVars >>
         ELSE IF getDayStateThrows(storage)
              THEN /\ lastOp' = "checkOut:throws"
                   /\ UNCHANGED << storage, isRunning, lastSession, elapsed, todayTotal,
                                   renderVars >>
              ELSE /\ lastOp' = "checkOut"
                   /\ IF ~IsNull(current.running) /\ Val(current.running).start # 0
                      THEN LET startMs == Val(current.running).start
                               dur == Max(0, (now - startMs) \div MsPerSecond)
                               next == [ current EXCEPT
                                           !.sessions = Append(current.sessions,
                                                          [ start |-> startMs, end |-> now ]),
                                           !.running = Null ]
                           IN  /\ storage' = setDayState(storage, iso, next)
                               /\ isRunning' = FALSE
                               /\ lastSession' = dur
                               /\ elapsed' = 0
                               /\ todayTotal' = SessionsTotal(next.sessions)
                               /\ Render
                      ELSE UNCHANGED << storage, isRunning, lastSession, elapsed,
                                        todayTotal, renderVars >>
  /\ UNCHANGED << clockVars, viewVars, callVars, autoCheckoutBanner, ticks, selectedDateISO, entryDate,
                  entryVars >>

\* A page load: every useState starts from its initial value, the first
\* render computes todayISO, fetchAll (Dashboard.jsx:89-115) starts, and the
\* mount effect (173-212) reconciles the running session of that date; the
\* selected-date effect (267-271) then shows the total of selectedDateISO,
\* which is todayISO.  When the first render throws, React unmounts the page
\* before any effect runs: no fetchAll starts.  With no user signed in
\* ProtectedRoute renders no dashboard: nothing is read, nothing throws and
\* no effect runs.
\* ProtectedRoute.jsx:22-26  the first render of the dashboard throws: there
\* is a dashboard only for a signed-in user.
MountThrows(u) == ~IsNull(u) /\ getDayStateThrows(storage)

MountAs(u, kept, label) ==
  /\ user' = u
  /\ lastOp' = (IF MountThrows(u) THEN label \o ":throws" ELSE label)
  /\ todayISO' = DayOf(now)
  /\ crashed' = MountThrows(u)
  /\ selectedDateISO' = DayOf(now)
  /\ entryDate' = DayOf(now)
  /\ showEntryPanel' = TRUE
  /\ hours' = ""
  /\ notes' = ""
  /\ project' = ""
  /\ task' = ""
  /\ workErrors' = NoWorkErrors
  /\ entryMode' = "work"
  /\ leaveType' = "casual"
  /\ leaveDuration' = "full"
  /\ leaveHours' = ""
  /\ leaveReason' = ""
  /\ leaveErrors' = NoLeaveErrors
  /\ editingId' = Null
  /\ workEntries' = <<>>
  /\ leaveEntries' = <<>>
  /\ IF IsNull(u) \/ MountThrows(u)
     THEN logsLoading' = FALSE /\ tasks' = kept
     ELSE logsLoading' = TRUE /\ tasks' = kept \o << FetchAllTask(u) >>
  /\ logsError' = ""
  /\ ticks' = 0
  /\ LET iso == DayOf(now)
         day == getDayState(storage, iso)
     IN  IF IsNull(u) \/ MountThrows(u)
         THEN /\ todayTotal' = 0
              /\ isRunning' = FALSE
              /\ elapsed' = 0
              /\ lastSession' = 0
              /\ autoCheckoutBanner' = Null
              /\ UNCHANGED storage
         ELSE IF ~IsNull(day.running)
              THEN LET startMs == Val(day.running).start
                       maxEnd == startMs + CapMs
                   IN  IF now >= maxEnd
                       THEN LET next == [ day EXCEPT
                                            !.sessions = Append(day.sessions,
                                                 [ start |-> startMs, end |-> maxEnd ]),
                                            !.running = Null ]
                            IN  /\ storage' = setDayState(storage, iso, next)
                                /\ lastSession' = (maxEnd - startMs) \div MsPerSecond
                                /\ isRunning' = FALSE
                                /\ elapsed' = 0
                                /\ autoCheckoutBanner' =
                                     Some([ message |-> "Automatically checked out after 12 hours to prevent stale session.",
                                            dateISO |-> iso ])
                                /\ todayTotal' = SessionsTotal(next.sessions)
                       ELSE /\ isRunning' = TRUE
                            /\ elapsed' = (now - startMs) \div MsPerSecond
                            /\ todayTotal' = recalcTodayTotal(storage, iso)
                            /\ lastSession' = 0
                            /\ autoCheckoutBanner' = Null
                            /\ UNCHANGED storage
              ELSE /\ todayTotal' = recalcTodayTotal(storage, iso)
                   /\ isRunning' = FALSE
                   /\ elapsed' = 0
                   /\ lastSession' = 0
                   /\ autoCheckoutBanner' = Null
                   /\ UNCHANGED storage
  /\ calendarView' = "week"
  /\ activeTab' = "timesheet"
  /\ UNCHANGED << clockVars, tzOffset, callVars, remoteEnabled, schemaReady, remote,
                  nextId, failures, gestures >>

\* The page mounted for the user who is signed in.
MountOver(kept, label) == MountAs(user, kept, label)

\* The page is loaded again: nothing of the page before is left.
Reload == MountOver(<< >>, "reload") /\ UNCHANGED requests

\* Dashboard.jsx:945  the banner's Dismiss button.
DismissBanner ==
  /\ ~IsNull(autoCheckoutBanner)
  /\ autoCheckoutBanner' = Null
  /\ Render
  /\ lastOp' = "dismiss"
  /\ UNCHANGED << clockVars, viewVars, callVars, storage, isRunning, elapsed, lastSession, ticks,
                  dateVars, entryVars >>

\* Dashboard.jsx:334-338  a calendar cell is clicked.
onClickDay ==
  /\ OnTimesheet
  /\ \E d \in Days :
       /\ d \in VisibleDates(calendarView, selectedDateISO, tzOffset)
       /\ d # selectedDateISO \/ ~showEntryPanel
       /\ SelectTo(d)
  /\ showEntryPanel' = TRUE
  /\ Render
  /\ lastOp' = "selectDate"
  /\ UNCHANGED << clockVars, viewVars, callVars, storage, timerVars, workDraft, leaveDraft, errorVars,
                  entryMode, editingId, gestures, listVars, envVars, netVars >>

\* Variant that goes back to today's date when the view is switched.
setCalendarViewResetsDate ==
  /\ OnTimesheet
  /\ \E view \in { "week", "month" } : view # calendarView /\ calendarView' = view
  /\ SelectTo(todayISO)
  /\ Render
  /\ lastOp' = "setView"
  /\ UNCHANGED << clockVars, tzOffset, activeTab, callVars, storage, timerVars, formVars, listVars,
                  envVars, netVars >>

\* Dashboard.jsx:1005-1022  the Week / Month tabs: setCalendarView(view).
setCalendarView ==
  /\ OnTimesheet
  /\ \E view \in { "week", "month" } : view # calendarView /\ calendarView' = view
  /\ Render
  /\ lastOp' = "setView"
  /\ UNCHANGED << clockVars, tzOffset, activeTab, callVars, storage, timerVars, dateVars, entryVars >>

\* Variant that empties the ledger of the date it selects.
onClickTodayClearsDay ==
  /\ OnTimesheet
  /\ SelectTo(toISO(DateOf(now), tzOffset))
  /\ toISO(DateOf(now), tzOffset) # selectedDateISO
  /\ storage' = setDayState(storage, toISO(DateOf(now), tzOffset), EmptyDay)
  /\ Render
  /\ lastOp' = "today"
  /\ UNCHANGED << clockVars, viewVars, callVars, timerVars, formVars, listVars,
                  envVars, netVars >>

\* Dashboard.jsx:340-343  the Today button: the local date of now.
onClickToday ==
  /\ OnTimesheet
  /\ SelectTo(toISO(DateOf(now), tzOffset))
  /\ toISO(DateOf(now), tzOffset) # selectedDateISO
  /\ Render
  /\ lastOp' = "today"
  /\ UNCHANGED << clockVars, viewVars, callVars, storage, timerVars, formVars, listVars,
                  envVars, netVars >>

\* Dashboard.jsx:970-980  the New Entry button of the summary card: opens the
\* panel on the local date of now.
onClickNewEntry ==
  /\ OnTimesheet
  /\ toISO(DateOf(now), tzOffset) # selectedDateISO \/ ~showEntryPanel
  /\ SelectTo(toISO(DateOf(now), tzOffset))
  /\ showEntryPanel' = TRUE
  /\ Render
  /\ lastOp' = "newEntry"
  /\ UNCHANGED << clockVars, viewVars, callVars, storage, timerVars, workDraft, leaveDraft, errorVars,
                  entryMode, editingId, gestures, listVars, envVars, netVars >>

\* Dashboard.jsx:866-881  the Timesheet / Status buttons of the header.
setActiveTab ==
  /\ \E tab \in { "timesheet", "status" } :
       /\ tab # activeTab
       /\ activeTab' = tab
       /\ RenderOn(tab)
  /\ lastOp' = "setTab"
  /\ UNCHANGED << clockVars, calendarView, tzOffset, callVars, storage, timerVars,
                  dateVars, entryVars >>

TimerNext ==
  \/ ClockAdvance
  \/ ClockSetBack
  \/ Tick
  \/ handleCheckIn
  \/ handleCheckOut
  \/ Reload
  \/ DismissBanner
  \/ onClickDay

\* Something outside the page (another program, the user, a full or disabled
\* localStorage) removes the key, replaces its content, or makes the storage
\* unavailable.
StorageFault ==
  /\ KindOf(storage) \in { "absent", "object" }
  /\ \/ ~IsNull(storage) /\ storage' = Null
     \/ \E k \in ForeignKinds : storage' = Some(Content(k, <<>>))
  /\ lastOp' = "storageFault"
  /\ UNCHANGED << clockVars, viewVars, callVars, renderVars, timerVars, dateVars, entryVars >>

\* The timer with a configured remote store.
TimerInit == Init /\ remoteEnabled /\ schemaReady

TimerSpec == TimerInit /\ [][TimerNext]_vars

\* The timer on a localStorage that fails or holds foreign content.
StorageNext ==
  \/ StorageFault
  \/ ClockAdvance
  \/ Tick
  \/ handleCheckIn
  \/ handleCheckOut
  \/ Reload
  \/ onClickDay
  \/ setActiveTab

StorageSpec == TimerInit /\ [][StorageNext]_vars

\* ------------------------------------------------ entry form and sync façade
\* Largest number of handlers waiting for the remote store at one time.
MaxInFlight == 2
\* Largest number of handlers started that call the remote store.
MaxRequests == 2
\* Largest number of gestures on the entry form (a field change, a change of
\* mode or date, Edit, Clear, Close).
MaxGestures == 2
\* Largest number of requests a provisioned remote store fails.
MaxFailures == 1

HoursInputs == { "8", "25" }
\* 501 characters.
LongNotes == X500 \o "x"
NotesInputs == { LongNotes }
ProjectInputs == { "p" }
TaskInputs == { "t" }
LeaveTypeInputs == { "vacation" }
LeaveDurationInputs == { "full", "partial" }
LeaveHoursInputs == { "9" }
LeaveReasonInputs == { "r" }

RemoveAt(seq, i) == SubSeq(seq, 1, i - 1) \o SubSeq(seq, i + 1, Len(seq))

CanStart == Len(tasks) < MaxInFlight /\ requests < MaxRequests

\* Largest number of entries created while the page is open.
MaxNewRows == 1

\* The entries created since the page was opened and those being created.
NewRows ==
  Cardinality({ r \in remote : r.id >= FirstNewId })
    + Cardinality({ i \in 1 .. Len(tasks) :
                      tasks[i].call.op = "insert" /\ tasks[i].stage = "call" })

CanCreate == NewRows < MaxNewRows

\* Variant that leaves the hours field as it is.
clearFormOnlyKeepsHours ==
  /\ project' = ""
  /\ task' = ""
  /\ notes' = ""
  /\ hours' = hours
  /\ workErrors' = NoWorkErrors
  /\ leaveType' = "casual"
  /\ leaveDuration' = "full"
  /\ leaveHours' = ""
  /\ leaveReason' = ""
  /\ leaveErrors' = NoLeaveErrors

\* Dashboard.jsx:378-396
clearFormOnly ==
  /\ project' = ""
  /\ task' = ""
  /\ notes' = ""
  /\ hours' = ""
  /\ workErrors' = NoWorkErrors
  /\ leaveType' = "casual"
  /\ leaveDuration' = "full"
  /\ leaveHours' = ""
  /\ leaveReason' = ""
  /\ leaveErrors' = NoLeaveErrors

\* error.message || fallback
MessageOr(error, fallback) ==
  IF Falsy(Val(error).message) THEN fallback ELSE Val(error).message

\* Variant that keeps the optimistic list.
RolledBackKeepsCurrent(backup, current) == current

\* Dashboard.jsx:599, 626  the list an error of the remote delete restores.
RolledBack(backup, current) == backup

\* Dashboard.jsx:510-512  prev.map(x => x.id === editingId ? {...old, ...data} : x)
RECURSIVE ReplaceById(_, _, _)
ReplaceById(list, id, item) ==
  IF list = <<>> THEN <<>>
  ELSE << IF Head(list).id = id THEN item ELSE Head(list) >>
       \o ReplaceById(Tail(list), id, item)

\* The remote store handles the request of a waiting handler: the results it
\* may give.
Execute(call, outcome) ==
  CASE call.op = "list" ->
         { Spread(res, [ rows |-> remote ]) :
           res \in listTimeEntriesWithType(remote, remoteEnabled, outcome,
                                           call.userId, call.type) }
    [] call.op = "insert" ->
         { createOrSaveDraftEntry(remote, remoteEnabled, outcome, nextId,
                                  call.entry, call.mode, call.status) }
    [] call.op = "update" ->
         { updateTimeEntry(remote, remoteEnabled, outcome, call.id, call.patch) }
    [] call.op = "delete" ->
         { deleteTimeEntry(remote, remoteEnabled, outcome, call.id) }

\* What the client can do with a request: while the table is missing the
\* store answers with one of SchemaMissingErrors, otherwise it serves the
\* request or reports another error; the client may throw at any time.
StoreMayGive(outcome) ==
  CASE outcome.kind = "ok" -> schemaReady
    [] outcome.kind = "error" -> (outcome.error \in SchemaMissingErrors) = ~schemaReady
    [] outcome.kind = "throws" -> TRUE

\* The request fails although the table exists.
Fails(outcome) ==
  IF outcome.kind = "error" THEN outcome.error \notin SchemaMissingErrors
  ELSE outcome.kind = "throws"

\* The outcomes the requests of the page are answered with: one outcome for
\* each branch of a service (served, table missing, an error handed on, an
\* exception caught).  ServiceSpec answers with every outcome of RawOutcomes.
PageOutcomes == { Served, Returned(MissingTableError), Returned(DbError), Throws("") }

\* part_003:114-272  the service call of task i resolves with one of outcomes.
ServerExecFrom(i, outcomes) ==
  /\ i \in 1 .. Len(tasks)
  /\ tasks[i].stage = "call"
  /\ \E outcome \in outcomes :
       \E r \in Execute(tasks[i].call, outcome) :
           /\ StoreMayGive(outcome)
           /\ Fails(outcome) => failures < MaxFailures
           /\ failures' = IF remoteEnabled /\ Fails(outcome)
                          THEN failures + 1 ELSE failures
           /\ remote' = r.rows
           /\ nextId' = IF r.rows = remote \/ tasks[i].call.op # "insert"
                        THEN nextId ELSE nextId + 1
           /\ tasks' = [ tasks EXCEPT ![i].stage = "resp",
                                      ![i].res = [ data |-> r.data, error |-> r.error ] ]
  /\ lastOp' = "remote"
  /\ UNCHANGED << clockVars, viewVars, callVars, storage, renderVars, timerVars, dateVars, formVars,
                  listVars, envVars, requests >>

ServerExec(i) == ServerExecFrom(i, PageOutcomes)

\* Dashboard.jsx:101-108  the banner text fetchAll shows.
FetchError(work, leave) ==
  IF \/ (~IsNull(work.error) /\ work.data = <<>>)
     \/ (~IsNull(leave.error) /\ leave.data = <<>>)
  THEN IF \/ (~IsNull(work.error)
              /\ Val(work.error).code \in { "missing_schema", "feature_disabled" })
          \/ (~IsNull(leave.error)
              /\ Val(leave.error).code \in { "missing_schema", "feature_disabled" })
       THEN Some("Data not available yet")
       ELSE IF ~IsNull(work.error) /\ ~Falsy(Val(work.error).message)
            THEN Some(Val(work.error).message)
            ELSE IF ~IsNull(leave.error) /\ ~Falsy(Val(leave.error).message)
                 THEN Some(Val(leave.error).message)
                 ELSE Some("Failed to load entries")
  ELSE Null

NextCall(i, call, cap) ==
  [ tasks EXCEPT ![i] = [ kind |-> tasks[i].kind, step |-> tasks[i].step + 1,
                          stage |-> "call", call |-> call, res |-> <<>>,
                          cap |-> cap, live |-> tasks[i].live ] ]

\* Variant that writes the lists whether the effect was cleaned up or not.
DeliverFetchAllIgnoresMounted(i) ==
  LET t == tasks[i]
  IN  IF t.step = 1
      THEN /\ tasks' = NextCall(i, ListCall("leave", Val(t.cap.user).id),
                                Spread(t.cap, [ work |-> t.res ]))
           /\ lastOp' = "fetchAll:work"
           /\ UNCHANGED << listVars, renderVars >>
      ELSE /\ logsError' = IF IsNull(FetchError(t.cap.work, t.res)) THEN logsError
                           ELSE Val(FetchError(t.cap.work, t.res))
           /\ workEntries' = t.cap.work.data
           /\ leaveEntries' = t.res.data
           /\ logsLoading' = FALSE
           /\ tasks' = RemoveAt(tasks, i)
           /\ Render
           /\ lastOp' = "fetchAll:done"

\* Dashboard.jsx:96-111  fetchAll after each of its awaits; after the second
\* one it returns when its effect was cleaned up (100).
DeliverFetchAll(i) ==
  LET t == tasks[i]
  IN  IF t.step = 1
      THEN /\ tasks' = NextCall(i, ListCall("leave", Val(t.cap.user).id),
                                Spread(t.cap, [ work |-> t.res ]))
           /\ lastOp' = "fetchAll:work"
           /\ UNCHANGED << listVars, renderVars >>
      ELSE IF ~t.cap.mounted
           THEN /\ tasks' = RemoveAt(tasks, i)
                /\ lastOp' = "fetchAll:stale"
                /\ UNCHANGED << listVars, renderVars >>
           ELSE /\ logsError' = IF IsNull(FetchError(t.cap.work, t.res)) THEN logsError
                                ELSE Val(FetchError(t.cap.work, t.res))
                /\ workEntries' = t.cap.work.data
                /\ leaveEntries' = t.res.data
                /\ logsLoading' = FALSE
                /\ tasks' = RemoveAt(tasks, i)
                /\ Render
                /\ lastOp' = "fetchAll:done"

\* Dashboard.jsx:597-604 and 624-631  handleDeleteWork / handleDeleteLeave after
\* each of their awaits.
DeliverDelete(i) ==
  LET t == tasks[i]
      type == IF t.kind = "deleteWork" THEN "work" ELSE "leave"
      list == IF type = "work" THEN workEntries ELSE leaveEntries
      SetList(l) == IF type = "work"
                    THEN workEntries' = l /\ UNCHANGED leaveEntries
                    ELSE leaveEntries' = l /\ UNCHANGED workEntries
  IN  /\ UNCHANGED << logsLoading, logsError >>
      /\ IF t.step = 1
         THEN IF ~IsNull(t.res.error)
              THEN /\ SetList(RolledBack(t.cap.backup, list))
                   /\ tasks' = RemoveAt(tasks, i)
                   /\ Render
                   /\ lastOp' = t.kind \o ":error"
              ELSE IF ~IsNull(t.cap.user)
                   THEN /\ tasks' = NextCall(i, ListCall(type, Val(t.cap.user).id), t.cap)
                        /\ lastOp' = t.kind \o ":ok"
                        /\ UNCHANGED << workEntries, leaveEntries, renderVars >>
                   ELSE /\ tasks' = RemoveAt(tasks, i)
                        /\ lastOp' = t.kind \o ":ok"
                        /\ UNCHANGED << workEntries, leaveEntries, renderVars >>
         ELSE /\ SetList(t.res.data)
              /\ tasks' = RemoveAt(tasks, i)
              /\ Render
              /\ lastOp' = t.kind \o ":list"

\* Dashboard.jsx:491-499  onSubmitWork, create branch, after each await.
DeliverSubmitWork(i) ==
  LET t == tasks[i]
  IN  /\ UNCHANGED << leaveEntries, logsLoading, logsError, entryMode, editingId,
                      showEntryPanel, gestures, selectedDateISO, todayTotal >>
      /\ IF t.step = 1
         THEN IF IsNull(t.res.error)
              THEN /\ tasks' = NextCall(i, ListCall("work", Val(t.cap.user).id), t.cap)
                   /\ lastOp' = "submitWork:ok"
                   /\ UNCHANGED << renderVars, workEntries, workDraft, leaveDraft, errorVars, entryDate >>
              ELSE /\ workErrors' = Spread(workErrors,
                         [ submit |-> MessageOr(t.res.error, "Failed to create entry") ])
                   /\ tasks' = RemoveAt(tasks, i)
                   /\ Render
                   /\ lastOp' = "submitWork:error"
                   /\ UNCHANGED << workEntries, workDraft, leaveDraft, leaveErrors,
                                   entryDate >>
         ELSE /\ workEntries' = t.res.data
              /\ clearFormOnly
              /\ Render
              /\ entryDate' = t.cap.selectedDateISO
              /\ tasks' = RemoveAt(tasks, i)
              /\ lastOp' = "submitWork:list"

\* Dashboard.jsx:503-516  onSubmitWork, edit branch, after each await.
DeliverUpdateWork(i) ==
  LET t == tasks[i]
  IN  /\ UNCHANGED << leaveEntries, logsLoading, logsError, entryMode,
                      showEntryPanel, gestures, selectedDateISO, todayTotal >>
      /\ Render
      /\ IF t.step = 1
         THEN IF ~IsNull(t.res.error)
              THEN /\ workErrors' = Spread(workErrors,
                         [ submit |-> MessageOr(t.res.error, "Failed to update entry") ])
                   /\ tasks' = NextCall(i, ListCall("work", Val(t.cap.user).id), t.cap)
                   /\ lastOp' = "updateWork:error"
                   /\ UNCHANGED << workEntries, workDraft, leaveDraft, leaveErrors,
                                   entryDate, editingId >>
              ELSE /\ workEntries' = ReplaceById(workEntries, t.cap.editingId,
                                                 Spread(t.cap.old, Val(t.res.data)))
                   /\ editingId' = Null
                   /\ clearFormOnly
                   /\ entryDate' = t.cap.selectedDateISO
                   /\ tasks' = RemoveAt(tasks, i)
                   /\ lastOp' = "updateWork:ok"
         ELSE /\ workEntries' = t.res.data
              /\ tasks' = RemoveAt(tasks, i)
              /\ lastOp' = "updateWork:list"
              /\ UNCHANGED << workDraft, leaveDraft, errorVars, entryDate, editingId >>

\* Dashboard.jsx:565-573  onSubmitLeave after each await.
DeliverSubmitLeave(i) ==
  LET t == tasks[i]
  IN  /\ UNCHANGED << workEntries, logsLoading, logsError, entryMode, editingId,
                      showEntryPanel, gestures, selectedDateISO, todayTotal, entryDate >>
      /\ IF t.step = 1
         THEN IF IsNull(t.res.error)
              THEN /\ tasks' = NextCall(i, ListCall("leave", Val(t.cap.user).id), t.cap)
                   /\ lastOp' = "submitLeave:ok"
                   /\ UNCHANGED << renderVars, leaveEntries, workDraft, leaveDraft, errorVars >>
              ELSE /\ leaveErrors' = Spread(leaveErrors,
                         [ submit |-> MessageOr(t.res.error, "Failed to submit leave") ])
                   /\ tasks' = RemoveAt(tasks, i)
                   /\ Render
                   /\ lastOp' = "submitLeave:error"
                   /\ UNCHANGED << leaveEntries, workDraft, leaveDraft, workErrors >>
         ELSE /\ leaveEntries' = t.res.data
              /\ clearFormOnly
              /\ Render
              /\ tasks' = RemoveAt(tasks, i)
              /\ lastOp' = "submitLeave:list"

\* Dashboard.jsx:428-437 and 448-456  onSaveDraft after each await.
DeliverSaveDraft(i) ==
  LET t == tasks[i]
      type == IF t.kind = "saveDraftWork" THEN "work" ELSE "leave"
  IN  /\ UNCHANGED << logsLoading, logsError, entryMode, editingId,
                      showEntryPanel, gestures, dateVars >>
      /\ IF t.step = 1
         THEN IF IsNull(t.res.error)
              THEN /\ tasks' = NextCall(i, ListCall(type, Val(t.cap.user).id), t.cap)
                   /\ lastOp' = t.kind \o ":ok"
                   /\ UNCHANGED << renderVars, listVars, workDraft, leaveDraft, errorVars >>
              ELSE /\ IF type = "work"
                      THEN /\ workErrors' = Spread(workErrors,
                                 [ submit |-> MessageOr(t.res.error, "Draft save failed") ])
                           /\ UNCHANGED leaveErrors
                      ELSE /\ leaveErrors' = Spread(leaveErrors,
                                 [ submit |-> MessageOr(t.res.error, "Draft save failed") ])
                           /\ UNCHANGED workErrors
                   /\ tasks' = RemoveAt(tasks, i)
                   /\ Render
                   /\ lastOp' = t.kind \o ":error"
                   /\ UNCHANGED << workEntries, leaveEntries, workDraft, leaveDraft >>
         ELSE /\ IF type = "work"
                 THEN workEntries' = t.res.data /\ UNCHANGED leaveEntries
                 ELSE leaveEntries' = t.res.data /\ UNCHANGED workEntries
              /\ clearFormOnly
              /\ Render
              /\ tasks' = RemoveAt(tasks, i)
              /\ lastOp' = t.kind \o ":list"

\* A handler of a component that is no longer mounted runs on after its
\* await: it asks for what it asks for next (fetchAll 98, the re-read of
\* 493, 507, 567, 601, 628, 431, 450) or ends, and React ignores every state
\* it sets.
DeliverUnmounted(i) ==
  LET t == tasks[i]
      type == IF t.kind \in { "deleteLeave", "submitLeave", "saveDraftLeave" }
              THEN "leave" ELSE "work"
      again == IF t.step # 1 THEN FALSE
               ELSE IF t.kind = "fetchAll" THEN TRUE
               ELSE IF t.kind = "updateWork" THEN ~IsNull(t.res.error)
               ELSE IsNull(t.res.error) /\ ~IsNull(t.cap.user)
  IN  /\ tasks' = IF ~again THEN RemoveAt(tasks, i)
                  ELSE IF t.kind = "fetchAll"
                       THEN NextCall(i, ListCall("leave", Val(t.cap.user).id),
                                     Spread(t.cap, [ work |-> t.res ]))
                       ELSE NextCall(i, ListCall(type, Val(t.cap.user).id), t.cap)
      /\ lastOp' = t.kind \o ":unmounted"
      /\ UNCHANGED << renderVars, listVars, formVars, dateVars >>

\* The instance that started handler i is the one on the screen.  fetchAll
\* looks at its own flag (100) before it sets anything.
Attached(i) == ~crashed /\ (tasks[i].live \/ tasks[i].kind = "fetchAll")

\* The response of the remote store reaches the waiting handler, which runs
\* on to its next await or to its end.
Deliver(i) ==
  /\ i \in 1 .. Len(tasks)
  /\ tasks[i].stage = "resp"
  /\ IF ~Attached(i)
     THEN DeliverUnmounted(i)
     ELSE CASE tasks[i].kind = "fetchAll" ->
                 /\ DeliverFetchAll(i)
                 /\ UNCHANGED << formVars, dateVars >>
            [] tasks[i].kind \in { "deleteWork", "deleteLeave" } ->
                 /\ DeliverDelete(i)
                 /\ UNCHANGED << formVars, dateVars >>
            [] tasks[i].kind = "submitWork" -> DeliverSubmitWork(i)
            [] tasks[i].kind = "updateWork" -> DeliverUpdateWork(i)
            [] tasks[i].kind = "submitLeave" -> DeliverSubmitLeave(i)
            [] tasks[i].kind \in { "saveDraftWork", "saveDraftLeave" } ->
                 DeliverSaveDraft(i)
  /\ UNCHANGED << clockVars, viewVars, callVars, storage, timerVars, envVars, remote, nextId, requests,
                  failures >>

\* Dashboard.jsx:955  the Status page is the one shown.
OnStatus == Mounted /\ activeTab = "status"

\* Dashboard.jsx:711  the work list is rendered when the entries are loaded
\* and no error is shown; the leave list (767-780) whenever it has entries.
WorkListShown == OnStatus /\ ~logsLoading /\ logsError = ""

\* Dashboard.jsx:594-597 and 621-624  handleDeleteWork(id) / handleDeleteLeave(id)
\* up to the await; the buttons are those of Dashboard.jsx:735-759, 805-829.
handleDelete(type, id) ==
  LET list == IF type = "work" THEN workEntries ELSE leaveEntries
      kind == IF type = "work" THEN "deleteWork" ELSE "deleteLeave"
  IN  /\ CanStart
      /\ IF type = "work" THEN WorkListShown ELSE OnStatus
      /\ \E k \in 1 .. Len(list) : list[k].id = id /\ canEditOrDelete(list[k].status)
      /\ IF type = "work"
         THEN workEntries' = Filter(workEntries, id) /\ UNCHANGED leaveEntries
         ELSE leaveEntries' = Filter(leaveEntries, id) /\ UNCHANGED workEntries
      /\ tasks' = Append(tasks, NewTask(kind, [ op |-> "delete", id |-> id ],
                                        [ backup |-> list, user |-> user ]))
      /\ requests' = requests + 1
      /\ Render
      /\ lastOp' = kind
      /\ UNCHANGED << clockVars, viewVars, callVars, storage, timerVars, dateVars, formVars, logsLoading,
                      logsError, envVars, remote, nextId, failures >>

handleDeleteWork == \E id \in 1 .. nextId : handleDelete("work", id)
handleDeleteLeave == \E id \in 1 .. nextId : handleDelete("leave", id)

\* Dashboard.jsx:580-592  handleEditWork(id)
handleEditWorkOf(id) ==
  /\ gestures < MaxGestures
  /\ gestures' = gestures + 1
  /\ IF IsNull(Find(workEntries, id))
     THEN /\ lastOp' = "editWork:none"
          /\ UNCHANGED << clockVars, viewVars, callVars, storage, renderVars, timerVars,
                          dateVars, workDraft, leaveDraft, errorVars, entryMode,
                          editingId, showEntryPanel, listVars, envVars, netVars >>
     ELSE /\ LET it == Val(Find(workEntries, id))
             IN  /\ SelectTo(it.date)
                 /\ project' = (IF Falsy(it.project) THEN "" ELSE it.project)
                 /\ task' = (IF Falsy(it.task) THEN "" ELSE it.task)
                 /\ notes' = (IF Falsy(it.notes) THEN "" ELSE it.notes)
                 /\ hours' = String(it.hours)
                 /\ editingId' = Some(id)
          /\ entryMode' = "work"
          /\ showEntryPanel' = TRUE
          /\ activeTab' = "timesheet"
          /\ RenderOn("timesheet")
          /\ lastOp' = "editWork"
          /\ UNCHANGED << clockVars, calendarView, tzOffset, callVars, storage, timerVars, leaveDraft,
                          errorVars, listVars, envVars, netVars >>

\* Dashboard.jsx:735-743  the Edit button of a work entry that is not approved,
\* in the work list of the Status page.
handleEditWork ==
  \E k \in 1 .. Len(workEntries) :
    /\ WorkListShown
    /\ canEditOrDelete(workEntries[k].status)
    /\ handleEditWorkOf(workEntries[k].id)

\* Dashboard.jsx:607-619  handleEditLeave(id)
handleEditLeaveOf(id) ==
  /\ gestures < MaxGestures
  /\ gestures' = gestures + 1
  /\ IF IsNull(Find(leaveEntries, id))
     THEN /\ lastOp' = "editLeave:none"
          /\ UNCHANGED << clockVars, viewVars, callVars, storage, renderVars, timerVars,
                          dateVars, workDraft, leaveDraft, errorVars, entryMode,
                          editingId, showEntryPanel, listVars, envVars, netVars >>
     ELSE /\ LET it == Val(Find(leaveEntries, id))
             IN  /\ SelectTo(it.date)
                 /\ leaveType' = (IF Falsy(it.leave_type) THEN "casual" ELSE it.leave_type)
                 /\ leaveDuration' =
                      (IF Falsy(it.leave_duration) THEN "full" ELSE it.leave_duration)
                 /\ leaveHours' = (IF it.hours # 0 THEN String(it.hours) ELSE "")
                 /\ leaveReason' =
                      (IF Falsy(it.leave_reason) THEN "" ELSE it.leave_reason)
                 /\ editingId' = Some(id)
          /\ entryMode' = "leave"
          /\ showEntryPanel' = TRUE
          /\ activeTab' = "timesheet"
          /\ RenderOn("timesheet")
          /\ lastOp' = "editLeave"
          /\ UNCHANGED << clockVars, calendarView, tzOffset, callVars, storage, timerVars, workDraft,
                          errorVars, listVars, envVars, netVars >>

\* Dashboard.jsx:805-813  the Edit button of a leave entry that is not approved.
handleEditLeave ==
  \E k \in 1 .. Len(leaveEntries) :
    /\ OnStatus
    /\ canEditOrDelete(leaveEntries[k].status)
    /\ handleEditLeaveOf(leaveEntries[k].id)

\* Dashboard.jsx:464-518  onSubmitWork up to its first await.
onSubmitWork ==
  LET v == validateEntryFields([ date |-> Some(selectedDateISO), hours |-> hours,
                                 notes |-> notes, project |-> project, task |-> task ])
      base == [ user_id |-> Val(user).id, date |-> selectedDateISO,
                project |-> project, task |-> task, hours |-> Number(hours).n,
                notes |-> notes, status |-> "submitted" ]
  IN  /\ PanelShown
      /\ entryMode = "work"
      /\ workErrors' = Spread(workErrors, v.errors)
      /\ Render
      /\ lastOp' = "submitWork"
      /\ IF ~v.valid \/ IsNull(user)
         THEN UNCHANGED << tasks, requests >>
         ELSE /\ CanStart
              /\ requests' = requests + 1
              /\ IF IsNull(editingId)
                 THEN CanCreate /\ tasks' = Append(tasks,
                        NewTask("submitWork",
                                [ op |-> "insert", entry |-> base, mode |-> "work",
                                  status |-> "submitted" ],
                                [ selectedDateISO |-> selectedDateISO, user |-> user ]))
                 ELSE tasks' = Append(tasks,
                        NewTask("updateWork",
                                [ op |-> "update", id |-> Val(editingId),
                                  patch |-> Spread(base, [ status |-> "submitted",
                                                           type |-> "work" ]) ],
                                [ editingId |-> Val(editingId),
                                  old |-> IF IsNull(Find(workEntries, Val(editingId)))
                                          THEN <<>>
                                          ELSE Val(Find(workEntries, Val(editingId))),
                                  selectedDateISO |-> selectedDateISO,
                                  user |-> user ]))
      /\ UNCHANGED << clockVars, viewVars, callVars, storage, timerVars, dateVars, workDraft, leaveDraft,
                      leaveErrors, entryMode, editingId, showEntryPanel, gestures,
                      listVars, envVars, remote, nextId, failures >>

\* A variant of onSubmitLeave that sends the hours of the form for a full day
\* too.
onSubmitLeaveSendsEntered ==
  LET errs == validateLeave(Some(selectedDateISO), leaveType, leaveDuration,
                            leaveReason, leaveHours)
      entry == [ user_id |-> Val(user).id, date |-> selectedDateISO,
                 leave_type |-> leaveType, leave_duration |-> leaveDuration,
                 leave_hours |-> Number(leaveHours).n,
                 leave_reason |-> Trim(leaveReason) ]
  IN  /\ PanelShown
      /\ entryMode = "leave"
      /\ leaveErrors' = errs
      /\ Render
      /\ lastOp' = "submitLeave"
      /\ IF HasError(errs) \/ IsNull(user)
         THEN UNCHANGED << tasks, requests >>
         ELSE /\ CanStart
              /\ CanCreate
              /\ requests' = requests + 1
              /\ tasks' = Append(tasks,
                   NewTask("submitLeave",
                           [ op |-> "insert", entry |-> entry, mode |-> "leave",
                             status |-> "submitted" ],
                           [ user |-> user ]))
      /\ UNCHANGED << clockVars, viewVars, callVars, storage, timerVars, dateVars, workDraft, leaveDraft,
                      workErrors, entryMode, editingId, showEntryPanel, gestures,
                      listVars, envVars, remote, nextId, failures >>

\* Dashboard.jsx:546-574  onSubmitLeave up to its await.
onSubmitLeave ==
  LET errs == validateLeave(Some(selectedDateISO), leaveType, leaveDuration,
                            leaveReason, leaveHours)
      entry == [ user_id |-> Val(user).id, date |-> selectedDateISO,
                 leave_type |-> leaveType, leave_duration |-> leaveDuration,
                 leave_hours |-> IF leaveDuration = "partial"
                                 THEN Number(leaveHours).n ELSE LEAVE_MAX_HOURS,
                 leave_reason |-> Trim(leaveReason) ]
  IN  /\ PanelShown
      /\ entryMode = "leave"
      /\ leaveErrors' = errs
      /\ Render
      /\ lastOp' = "submitLeave"
      /\ IF HasError(errs) \/ IsNull(user)
         THEN UNCHANGED << tasks, requests >>
         ELSE /\ CanStart
              /\ CanCreate
              /\ requests' = requests + 1
              /\ tasks' = Append(tasks,
                   NewTask("submitLeave",
                           [ op |-> "insert", entry |-> entry, mode |-> "leave",
                             status |-> "submitted" ],
                           [ user |-> user ]))
      /\ UNCHANGED << clockVars, viewVars, callVars, storage, timerVars, dateVars, workDraft, leaveDraft,
                      workErrors, entryMode, editingId, showEntryPanel, gestures,
                      listVars, envVars, remote, nextId, failures >>

\* Dashboard.jsx:425  hours === '' ? null : Number(hours), and part_003:164
\* Number(entry.hours) on it; a NaN is stored as SQL NULL, which mapRow reads
\* back as 0.
DraftHours(h) == IF h = "" THEN 0 ELSE Number(h).n

\* Dashboard.jsx:445  Number(leaveHours || 0)
DraftLeaveHours(duration, h) ==
  IF duration = "partial" THEN (IF h = "" THEN 0 ELSE Number(h).n)
  ELSE LEAVE_MAX_HOURS

\* Dashboard.jsx:413-458  onSaveDraft up to its first await.
onSaveDraft ==
  /\ PanelShown
  /\ lastOp' = "saveDraft"
  /\ IF IsNull(user)
     THEN UNCHANGED << tasks, requests >>
     ELSE /\ CanStart
          /\ requests' = requests + 1
          /\ IF entryMode = "work"
             THEN CanCreate /\ tasks' = Append(tasks,
                    NewTask("saveDraftWork",
                            [ op |-> "insert",
                              entry |-> [ user_id |-> Val(user).id,
                                          date |-> selectedDateISO,
                                          project |-> project, task |-> task,
                                          hours |-> DraftHours(hours),
                                          notes |-> notes ],
                              mode |-> "work", status |-> "draft" ],
                            [ user |-> user ]))
             ELSE CanCreate /\ tasks' = Append(tasks,
                    NewTask("saveDraftLeave",
                            [ op |-> "insert",
                              entry |-> [ user_id |-> Val(user).id,
                                          date |-> selectedDateISO,
                                          leave_type |-> leaveType,
                                          leave_duration |-> leaveDuration,
                                          leave_hours |->
                                            DraftLeaveHours(leaveDuration, leaveHours),
                                          leave_reason |-> leaveReason ],
                              mode |-> "leave", status |-> "draft" ],
                            [ user |-> user ]))
  /\ UNCHANGED << clockVars, viewVars, callVars, storage, renderVars, timerVars, dateVars, workDraft,
                  leaveDraft, errorVars, entryMode, editingId, showEntryPanel,
                  gestures, listVars, envVars, remote, nextId, failures >>

\* Variant that empties both forms when the tab is changed.
setEntryModeClearsForm ==
  /\ gestures < MaxGestures
  /\ gestures' = gestures + 1
  /\ PanelShown
  /\ \E m \in { "work", "leave" } : m # entryMode /\ entryMode' = m
  /\ clearFormOnly
  /\ Render
  /\ lastOp' = "setMode"
  /\ UNCHANGED << clockVars, viewVars, callVars, storage, timerVars, dateVars,
                  editingId, showEntryPanel, listVars, envVars, netVars >>

\* Dashboard.jsx:1127-1146  the Work / Leave tabs of the entry panel.
setEntryMode ==
  /\ gestures < MaxGestures
  /\ gestures' = gestures + 1
  /\ PanelShown
  /\ \E m \in { "work", "leave" } : m # entryMode /\ entryMode' = m
  /\ Render
  /\ lastOp' = "setMode"
  /\ UNCHANGED << clockVars, viewVars, callVars, storage, timerVars, dateVars, workDraft, leaveDraft,
                  errorVars, editingId, showEntryPanel, listVars, envVars,
                  netVars >>

\* A field of the work form is changed: Dashboard.jsx:372-376 (hours), 1204
\* (project), 1210 (task), 1249 (notes).
WorkInput ==
  /\ PanelShown
  /\ entryMode = "work"
  /\ gestures < MaxGestures
  /\ gestures' = gestures + 1
  /\ \/ /\ \E v \in HoursInputs : hours' = v
        /\ workErrors' = Spread(workErrors, [ hours |-> "" ])
        /\ UNCHANGED << notes, project, task >>
     \/ /\ \E v \in NotesInputs : notes' = v
        /\ UNCHANGED << hours, project, task, workErrors >>
     \/ /\ \E v \in ProjectInputs : project' = v
        /\ UNCHANGED << hours, notes, task, workErrors >>
     \/ /\ \E v \in TaskInputs : task' = v
        /\ UNCHANGED << hours, notes, project, workErrors >>
  /\ Render
  /\ lastOp' = "input"
  /\ UNCHANGED << clockVars, viewVars, callVars, storage, timerVars, dateVars, leaveDraft, leaveErrors,
                  entryMode, editingId, showEntryPanel, listVars, envVars, netVars >>

\* A field of the leave form is changed: Dashboard.jsx:1285 (type), 1304-1309
\* (duration), 1335 (hours, an input that is rendered for a partial day only,
\* 1322), 1356-1360 (reason).
LeaveInputFrom(hoursTexts) ==
  /\ PanelShown
  /\ entryMode = "leave"
  /\ gestures < MaxGestures
  /\ gestures' = gestures + 1
  /\ \/ /\ \E v \in LeaveTypeInputs : leaveType' = v
        /\ leaveErrors' = Spread(leaveErrors, [ leaveType |-> "" ])
        /\ UNCHANGED << leaveDuration, leaveHours, leaveReason >>
     \/ /\ \E v \in LeaveDurationInputs :
             /\ leaveDuration' = v
             /\ leaveHours' = IF v = "full" THEN "" ELSE leaveHours
        /\ leaveErrors' = Spread(leaveErrors, [ leaveDuration |-> "", leaveHours |-> "" ])
        /\ UNCHANGED << leaveType, leaveReason >>
     \/ /\ leaveDuration = "partial"
        /\ \E v \in hoursTexts : leaveHours' = v
        /\ leaveErrors' = Spread(leaveErrors, [ leaveHours |-> "" ])
        /\ UNCHANGED << leaveType, leaveDuration, leaveReason >>
     \/ /\ \E v \in LeaveReasonInputs :
             leaveReason' = IF Len(v) <= 300 THEN v ELSE leaveReason
        /\ leaveErrors' = Spread(leaveErrors, [ leaveReason |-> "" ])
        /\ UNCHANGED << leaveType, leaveDuration, leaveHours >>
  /\ Render
  /\ lastOp' = "input"
  /\ UNCHANGED << clockVars, viewVars, callVars, storage, timerVars, dateVars, workDraft, workErrors,
                  entryMode, editingId, showEntryPanel, listVars, envVars, netVars >>

LeaveInput == LeaveInputFrom(LeaveHoursInputs)

\* Dashboard.jsx:355-360  the date picker of the entry panel, which shows
\* selectedDateISO (1186): another date is picked, or the field is cleared and
\* e.target.value || todayISO is selected.
onDateChange ==
  /\ gestures < MaxGestures
  /\ gestures' = gestures + 1
  /\ PanelShown
  /\ \E value \in { Some(d) : d \in Days \ { selectedDateISO } } \cup { Null } :
       SelectTo(IF IsNull(value) THEN todayISO ELSE Val(value))
  /\ workErrors' = Spread(workErrors, [ date |-> "" ])
  /\ leaveErrors' = Spread(leaveErrors, [ date |-> "" ])
  /\ Render
  /\ lastOp' = "dateChange"
  /\ UNCHANGED << clockVars, viewVars, callVars, storage, timerVars, workDraft, leaveDraft, entryMode,
                  editingId, showEntryPanel, listVars, envVars, netVars >>

\* Variant that stays in edit mode.
onClearKeepsEditing ==
  /\ gestures < MaxGestures
  /\ gestures' = gestures + 1
  /\ PanelShown
  /\ clearFormOnly
  /\ entryDate' = selectedDateISO
  /\ Render
  /\ lastOp' = "clear"
  /\ UNCHANGED << clockVars, viewVars, callVars, storage, timerVars, selectedDateISO, todayTotal, editingId,
                  entryMode, showEntryPanel, listVars, envVars, netVars >>

\* Dashboard.jsx:398-402
onClear ==
  /\ gestures < MaxGestures
  /\ gestures' = gestures + 1
  /\ PanelShown
  /\ clearFormOnly
  /\ entryDate' = selectedDateISO
  /\ editingId' = Null
  /\ Render
  /\ lastOp' = "clear"
  /\ UNCHANGED << clockVars, viewVars, callVars, storage, timerVars, selectedDateISO, todayTotal,
                  entryMode, showEntryPanel, listVars, envVars, netVars >>

\* Dashboard.jsx:405-410
onClosePanel ==
  /\ gestures < MaxGestures
  /\ gestures' = gestures + 1
  /\ PanelShown
  /\ clearFormOnly
  /\ editingId' = Null
  /\ showEntryPanel' = FALSE
  /\ Render
  /\ lastOp' = "close"
  /\ UNCHANGED << clockVars, viewVars, callVars, storage, timerVars, dateVars, entryMode,
                  listVars, envVars, netVars >>

\* The entry form with its submissions and the lists with their deletions.
EntryNext ==
  \/ \E i \in 1 .. MaxInFlight : ServerExec(i)
  \/ \E i \in 1 .. MaxInFlight : Deliver(i)
  \/ handleEditWork
  \/ onSubmitWork
  \/ onSubmitLeave
  \/ setEntryMode
  \/ WorkInput
  \/ LeaveInput
  \/ setActiveTab

EntrySpec == Init /\ [][EntryNext]_vars

\* The Status lists and their Delete buttons.
ListNext ==
  \/ \E i \in 1 .. MaxInFlight : ServerExec(i)
  \/ \E i \in 1 .. MaxInFlight : Deliver(i)
  \/ handleDeleteWork
  \/ handleDeleteLeave
  \/ setActiveTab

ListSpec == Init /\ [][ListNext]_vars

\* The entry form with Save Draft.
DraftNext ==
  \/ \E i \in 1 .. MaxInFlight : ServerExec(i)
  \/ \E i \in 1 .. MaxInFlight : Deliver(i)
  \/ onSaveDraft
  \/ setEntryMode
  \/ WorkInput
  \/ LeaveInput

DraftSpec == Init /\ [][DraftNext]_vars

\* Largest number of entries the approver approves while the page is open.
MaxApprovals == 1

\* The external collaborator that owns the remote entries approves a submitted
\* entry (the dashboard itself never writes the status approved).
ExternalApprove ==
  /\ Cardinality({ r \in remote : r.status = "approved" }) < MaxApprovals
  /\ \E r \in remote :
       /\ r.status = "submitted"
       /\ remote' = (remote \ {r}) \cup { [ r EXCEPT !.status = "approved" ] }
  /\ lastOp' = "approve"
  /\ UNCHANGED << clockVars, viewVars, callVars, storage, renderVars, timerVars, dateVars, formVars,
                  listVars, envVars, nextId, tasks, requests, failures >>

\* The Status lists and the edit form while an approver works on the entries.
ApprovalNext ==
  \/ \E i \in 1 .. MaxInFlight : ServerExec(i)
  \/ \E i \in 1 .. MaxInFlight : Deliver(i)
  \/ handleEditWork
  \/ handleEditLeave
  \/ handleDeleteWork
  \/ handleDeleteLeave
  \/ onSubmitWork
  \/ ExternalApprove
  \/ setActiveTab

ApprovalSpec == Init /\ [][ApprovalNext]_vars

\* The entry form and the calendar without submissions.
FormNext ==
  \/ \E i \in 1 .. MaxInFlight : ServerExec(i)
  \/ \E i \in 1 .. MaxInFlight : Deliver(i)
  \/ handleEditWork
  \/ handleEditLeave
  \/ setEntryMode
  \/ WorkInput
  \/ LeaveInput
  \/ onDateChange
  \/ onClear
  \/ onClosePanel
  \/ onClickDay
  \/ setActiveTab

FormSpec == Init /\ [][FormNext]_vars

\* Hours between local time and UTC of the browsers the page is opened in.
TzOffsets == { 0 - 5 * MsPerHour, 0, 5 * MsPerHour }

\* The calendar in browsers of several time zones.
CalendarInit ==
  \E tz \in TzOffsets : InitIn(tz) /\ remoteEnabled /\ schemaReady

CalendarNext ==
  \/ ClockAdvance
  \/ setCalendarView
  \/ onClickDay
  \/ onClickToday
  \/ onDateChange
  \/ onClickNewEntry
  \/ Reload

CalendarSpec == CalendarInit /\ [][CalendarNext]_vars


Next == TimerNext \/ StorageNext \/ CalendarNext \/ EntryNext \/ DraftNext \/ ApprovalNext \/ FormNext

Spec == Init /\ [][Next]_vars


\* ------------------------------------------- functions applied on their own
\* Times of day of the Date objects the date helpers are given.
DayTimes == { 0, 12 * MsPerHour, MsPerDay - 1 }

\* The days whose local date is in the months of the calendar in every
\* time zone of TzOffsets.
CalendarDays == (FirstOfMonth(0) + 1) .. (FirstOfMonth(MaxMonths + 1) - 2)

\* Everything a step that applies a function leaves alone.
ApplyFrame(name) ==
  /\ lastOp' = name
  /\ UNCHANGED << clockVars, viewVars, fnCall, fnAwait, storage, renderVars, timerVars,
                  dateVars, entryVars >>

MonthGridInit ==
  \E tz \in TzOffsets, day \in CalendarDays, ms \in DayTimes :
    /\ InitWith(tz, [ fn |-> "getMonthGrid", d |-> DateAt(day, ms) ])
    /\ remoteEnabled /\ schemaReady

applyGetMonthGrid ==
  /\ IsNull(fnRet)
  /\ fnCall.fn = "getMonthGrid"
  /\ fnRet' = Some(getMonthGrid(fnCall.d, tzOffset))
  /\ ApplyFrame("getMonthGrid")

MonthGridNext == applyGetMonthGrid

MonthGridSpec == MonthGridInit /\ [][MonthGridNext]_vars

WeekInit ==
  \E tz \in TzOffsets, day \in CalendarDays, ms \in DayTimes :
    /\ InitWith(tz, [ fn |-> "weekDates", d |-> DateAt(day, ms) ])
    /\ remoteEnabled /\ schemaReady

\* weekDaysFrom(getStartOfWeek(date)), as Dashboard.jsx:325-326 calls them.
applyWeekDates ==
  /\ IsNull(fnRet)
  /\ fnCall.fn = "weekDates"
  /\ LET weekStart == getStartOfWeek(fnCall.d, tzOffset)
     IN  fnRet' = Some([ weekStart |-> weekStart,
                         weekDates |-> weekDaysFrom(weekStart, tzOffset) ])
  /\ ApplyFrame("weekDates")

WeekNext == applyWeekDates

WeekSpec == WeekInit /\ [][WeekNext]_vars

\* The form states validateLeave is applied to.
LeaveDates == { Null, Some(0) }
LeaveTypes == { "", "casual", "sick", "vacation" }
LeaveDurations == { "", "full", "partial" }
LeaveReasons == { "", " ", "r", " r ", X300, X300 \o "x" }

ValidateLeaveInit ==
  \E date \in LeaveDates, lType \in LeaveTypes, lDuration \in LeaveDurations,
     lReason \in LeaveReasons, lHours \in HourStrings :
    /\ InitWith(0, [ fn |-> "validateLeave", date |-> date, leaveType |-> lType,
                     leaveDuration |-> lDuration, leaveReason |-> lReason,
                     leaveHours |-> lHours ])
    /\ remoteEnabled /\ schemaReady

applyValidateLeave ==
  /\ IsNull(fnRet)
  /\ fnCall.fn = "validateLeave"
  /\ fnRet' = Some(validateLeave(fnCall.date, fnCall.leaveType, fnCall.leaveDuration,
                                 fnCall.leaveReason, fnCall.leaveHours))
  /\ ApplyFrame("validateLeave")

ValidateLeaveNext == applyValidateLeave

ValidateLeaveSpec == ValidateLeaveInit /\ [][ValidateLeaveNext]_vars

\* The values validateEntryFields is applied to.
WorkDates == { Null, Some(0) }
WorkNotes == { "", "n", X500, X500 \o "x" }
WorkProjects == { "", "chronose" }
WorkTasks == { "", "planning", "testing" }

ValidateWorkInit ==
  \E date \in WorkDates, h \in HourStrings, n \in WorkNotes, p \in WorkProjects,
     t \in WorkTasks :
    /\ InitWith(0, [ fn |-> "validateEntryFields",
                     values |-> [ date |-> date, hours |-> h, notes |-> n,
                                  project |-> p, task |-> t ] ])
    /\ remoteEnabled /\ schemaReady

applyValidateEntryFields ==
  /\ IsNull(fnRet)
  /\ fnCall.fn = "validateEntryFields"
  /\ fnRet' = Some(validateEntryFields(fnCall.values))
  /\ ApplyFrame("validateEntryFields")

ValidateWorkNext == applyValidateEntryFields

ValidateWorkSpec == ValidateWorkInit /\ [][ValidateWorkNext]_vars

\* ------------------------------------------------------- loading for edit
\* The rows of the remote store, with a partial leave of no hours among them.
EditRows ==
  InitialRows \cup
  { [ id |-> Cardinality(InitialRows) + 1, user_id |-> UserId, date |-> MaxDays - 1,
      project |-> DbNull, task |-> DbNull, hours |-> 0, notes |-> DbNull,
      status |-> "draft", type |-> "leave", leave_type |-> "vacation",
      leave_duration |-> "partial", leave_reason |-> "r" ] }

EditInit == InitOf(0, Null, EditRows) /\ remoteEnabled /\ schemaReady

\* The Edit buttons of the Status lists.
EditNext ==
  \/ \E i \in 1 .. MaxInFlight : ServerExec(i)
  \/ \E i \in 1 .. MaxInFlight : Deliver(i)
  \/ handleEditWork
  \/ handleEditLeave
  \/ setActiveTab

EditSpec == EditInit /\ [][EditNext]_vars

\* ------------------------------------------------- the services on their own
\* A work entry as onSubmitWork builds it.
ServiceEntry ==
  [ user_id |-> UserId, date |-> 0, project |-> "p", task |-> "t", hours |-> 8,
    notes |-> "n", status |-> "submitted" ]

\* Calls of the four services of services/timeEntries.js.
ServiceCalls ==
  { ListCall("work", UserId), ListCall("leave", UserId),
    [ op |-> "insert", entry |-> ServiceEntry, mode |-> "work", status |-> "submitted" ],
    [ op |-> "insert", entry |-> ServiceEntry, mode |-> "work", status |-> "draft" ],
    [ op |-> "insert", entry |-> ServiceEntry, mode |-> "overtime", status |-> "draft" ],
    [ op |-> "update", id |-> 1, patch |-> Spread(ServiceEntry, [ type |-> "work" ]) ],
    [ op |-> "delete", id |-> 1 ] }

\* A call of a service, with what the client does with its request.
ServiceCall(c, outcome) == [ fn |-> "service", call |-> c, outcome |-> outcome ]

\* The page opened while the remote store is not configured or the flag is off.
OfflineInit ==
  \E c \in ServiceCalls, outcome \in { Served, Returned(DbError) } :
    InitWith(0, ServiceCall(c, outcome)) /\ ~remoteEnabled

\* part_003:115-118, 152-155, 182, 222-225, 255-258  the call reaches the
\* client: the store is enabled and the mode of a create is work or leave.
\* The service then awaits the client (125, 184, 240, 261).
Awaits(c) == remoteEnabled /\ (c.op = "insert" => c.mode \in { "work", "leave" })

\* part_003:125, 184, 240, 261  the service has called the client and is
\* suspended on the await: the store carries out the request, the service has
\* not returned yet.
ServiceExec ==
  /\ fnCall.fn = "service"
  /\ IsNull(fnRet)
  /\ IsNull(fnAwait)
  /\ Awaits(fnCall.call)
  /\ \E r \in Execute(fnCall.call, fnCall.outcome) :
       /\ remote' = r.rows
       /\ nextId' = IF r.rows = remote \/ fnCall.call.op # "insert"
                    THEN nextId ELSE nextId + 1
       /\ fnAwait' = Some([ data |-> r.data, error |-> r.error ])
  /\ lastOp' = "service:remote"
  /\ UNCHANGED << clockVars, viewVars, fnCall, fnRet, storage, renderVars, timerVars,
                  dateVars, formVars, listVars, envVars, tasks, requests, failures >>

\* One service returns: at once when the call does not reach the client,
\* otherwise when the await is over.
applyService ==
  /\ fnCall.fn = "service"
  /\ IsNull(fnRet)
  /\ IF Awaits(fnCall.call)
     THEN /\ ~IsNull(fnAwait)
          /\ fnRet' = fnAwait
     ELSE \E r \in Execute(fnCall.call, fnCall.outcome) :
            fnRet' = Some([ data |-> r.data, error |-> r.error ])
  /\ fnAwait' = Null
  /\ lastOp' = "service"
  /\ UNCHANGED << clockVars, viewVars, fnCall, storage, renderVars, timerVars, dateVars,
                  formVars, listVars, envVars, remote, nextId, tasks, requests, failures >>

\* The page and the services while the remote store is not enabled.
OfflineNext ==
  \/ \E i \in 1 .. MaxInFlight : ServerExec(i)
  \/ \E i \in 1 .. MaxInFlight : Deliver(i)
  \/ WorkInput
  \/ onSubmitWork
  \/ onSaveDraft
  \/ applyService

OfflineSpec == OfflineInit /\ [][OfflineNext]_vars

\* ------------------------------------------------- the calendar and the timer
\* The calendar used while sessions are checked in and out.
CalendarTimerNext ==
  \/ ClockAdvance
  \/ handleCheckIn
  \/ handleCheckOut
  \/ setCalendarView
  \/ onClickDay
  \/ onClickToday
  \/ onClickNewEntry

CalendarTimerSpec == CalendarInit /\ [][CalendarTimerNext]_vars

\* ------------------------------------------------------ submitting a leave
\* A leave is loaded for edit, changed and submitted, the hours field being
\* given any of the texts of HourStrings.
LeaveSubmitNext ==
  \/ \E i \in 1 .. MaxInFlight : ServerExec(i)
  \/ \E i \in 1 .. MaxInFlight : Deliver(i)
  \/ handleEditLeave
  \/ LeaveInputFrom(HourStrings)
  \/ onSubmitLeave
  \/ setActiveTab

LeaveSubmitSpec == TimerInit /\ [][LeaveSubmitNext]_vars

\* ------------------------------------------------- editing across the tabs
\* The page after the user typed 8 into the hours field of the work form.
SharedEditInit ==
  InitForm(0, Null, InitialRows, "8") /\ remoteEnabled /\ schemaReady

\* Entries are loaded for edit, the tab is changed, the form is cleared and
\* submitted.
SharedEditNext ==
  \/ \E i \in 1 .. MaxInFlight : ServerExec(i)
  \/ \E i \in 1 .. MaxInFlight : Deliver(i)
  \/ handleEditWork
  \/ handleEditLeave
  \/ setEntryMode
  \/ onClear
  \/ onSubmitWork
  \/ onSubmitLeave
  \/ setActiveTab

SharedEditSpec == SharedEditInit /\ [][SharedEditNext]_vars

\* ------------------------------------------------- the errors of the services
\* The page opened, the remote store enabled or not and its table there or
\* not, and one service called on its own with each thing the client can do
\* with the request.
ServiceInit ==
  \E c \in ServiceCalls, outcome \in RawOutcomes :
    InitWith(0, ServiceCall(c, outcome)) /\ StoreMayGive(outcome)

\* The lists are fetched and the service returns.
ServiceNext ==
  \/ \E i \in 1 .. MaxInFlight : ServerExecFrom(i, RawOutcomes)
  \/ \E i \in 1 .. MaxInFlight : Deliver(i)
  \/ ServiceExec
  \/ applyService

ServiceSpec == ServiceInit /\ [][ServiceNext]_vars

\* ------------------------------------------------- the user of the session
\* The users that sign in on this browser.
Users == { "u1", "u2" }

\* The remote table with an entry of a second user.
UserRows ==
  InitialRows \cup
  { [ id |-> 4, user_id |-> "u2", date |-> 0, project |-> "q", task |-> DbNull,
      hours |-> 2, notes |-> DbNull, status |-> "submitted", type |-> "work",
      leave_type |-> DbNull, leave_duration |-> DbNull, leave_reason |-> DbNull ] }

UserInit == InitOf(0, Null, UserRows) /\ remoteEnabled /\ schemaReady

\* AuthContext.jsx:46-49  onAuthStateChange gives the dashboard a new user
\* object (another account, or the same one with a fresh session), and the
\* fetchAll effect (Dashboard.jsx:89-115, dependency [user]) is cleaned up and
\* run again.  When the render with the new user throws, React unmounts the
\* page: the cleanup runs and the effect does not, so no fetchAll starts.
onAuthChange ==
  /\ Mounted
  /\ \E u \in Users :
       LET next == Some(UserObject(u, requests + 1))
       IN  /\ user' = next
           /\ IF RenderThrows
              THEN /\ tasks' = Unmounted(tasks)
                   /\ lastOp' = "setUser:throws"
                   /\ UNCHANGED << requests, logsLoading, logsError >>
              ELSE /\ CanStart
                   /\ requests' = requests + 1
                   /\ tasks' = Unmounted(tasks) \o << FetchAllTask(next) >>
                   /\ logsLoading' = TRUE
                   /\ logsError' = ""
                   /\ lastOp' = "setUser"
  /\ Render
  /\ UNCHANGED << clockVars, viewVars, callVars, storage, timerVars, dateVars, formVars,
                  workEntries, leaveEntries, remoteEnabled, schemaReady, remote,
                  nextId, failures >>

\* AuthContext.jsx:46-49, ProtectedRoute.jsx:22-26  the session ends (Logout,
\* Dashboard.jsx:346-353, or the session expires): user becomes null and the
\* dashboard is unmounted; its requests are still under way.
onSignOut ==
  /\ ~IsNull(user)
  /\ user' = Null
  /\ tasks' = Detached(tasks)
  /\ lastOp' = "signOut"
  /\ UNCHANGED << clockVars, viewVars, callVars, storage, renderVars, timerVars, dateVars,
                  formVars, listVars, remoteEnabled, schemaReady, remote, nextId,
                  requests, failures >>

\* ProtectedRoute.jsx:22-26  a user signs in and the dashboard is mounted
\* again, a new instance of the component.
Remount ==
  /\ IsNull(user)
  /\ CanStart
  /\ \E u \in Users :
       LET next == Some(UserObject(u, requests + 1))
       IN  /\ requests' = (IF MountThrows(next) THEN requests ELSE requests + 1)
           /\ MountAs(next, tasks, "remount")

\* The entries are fetched and deleted while the user of the session changes,
\* the dashboard is mounted again and an approver works on the entries.
UserNext ==
  \/ \E i \in 1 .. MaxInFlight : ServerExec(i)
  \/ \E i \in 1 .. MaxInFlight : Deliver(i)
  \/ onAuthChange
  \/ onSignOut
  \/ Remount
  \/ handleDeleteWork
  \/ setActiveTab
  \/ ExternalApprove

UserSpec == UserInit /\ [][UserNext]_vars
\* ===================================================== timer store claims
RunningStart(st, d) == Val(getDayState(st, d).running).start

\* Whole seconds of one closed session, never negative.
WholeSeconds(s) == IF s.end < s.start THEN 0 ELSE (s.end - s.start) \div 1000

RECURSIVE SumClosed(_)
\* Sum of the whole seconds of a sequence of closed sessions, from its head.
SumClosed(sessions) ==
  IF Len(sessions) = 0 THEN 0
  ELSE WholeSeconds(Head(sessions)) + SumClosed(Tail(sessions))

\* C1: single active session: in every reachable state at most one date of the
\* persisted TimerState has a non-null running session.
C1_SingleActiveSession == Cardinality(RunningDays(storage)) <= 1

\* C2: auto-closure: when startup reconciliation runs at now >= T + 12h for a
\* running session with start = T, that session is appended to its ledger with
\* start = T and end = T + 12h, running is cleared and the notification
\* {message, date} for that date is emitted; a startup that closes nothing
\* emits no notification.
C2_AutoClosure ==
  [][ lastOp' = "reload" =>
        /\ \A d \in RunningDays(storage) :
             now' >= RunningStart(storage, d) + CapMs =>
               /\ getDayState(storage', d).sessions =
                    Append(getDayState(storage, d).sessions,
                           [ start |-> RunningStart(storage, d),
                             end |-> RunningStart(storage, d) + CapMs ])
               /\ IsNull(getDayState(storage', d).running)
               /\ ~IsNull(autoCheckoutBanner')
               /\ Val(autoCheckoutBanner').dateISO = d
        /\ storage' = storage => IsNull(autoCheckoutBanner') ]_vars

\* C3: startup reconciliation covers every date: right after it ran at time
\* now, no ledger still holds a running session with now >= start + 12h.
C3_ReconcileCoversEveryDate ==
  lastOp = "reload" =>
    \A d \in RunningDays(storage) : now < RunningStart(storage, d) + CapMs

\* C4: ordering guarantee: a checkOut issued while the display is running and
\* the store holds the running session written by the matching checkIn closes
\* that session (its ledger grows by a session with the same start) and leaves
\* no running session behind, whatever time has passed since the checkIn.
C4_CheckOutObservesCheckIn ==
  [][ ( /\ lastOp' = "checkOut"
        /\ isRunning
        /\ Cardinality(RunningDays(storage)) = 1 ) =>
      \A d \in RunningDays(storage) :
        /\ RunningDays(storage') = {}
        /\ Len(getDayState(storage', d).sessions) =
             Len(getDayState(storage, d).sessions) + 1
        /\ getDayState(storage', d).sessions[Len(getDayState(storage', d).sessions)].start
             = RunningStart(storage, d) ]_vars

\* C5: checkOut effect: when a session started at start is running and
\* checkOut happens at now, its ledger gains exactly Session{start, end: now},
\* running becomes null, the last-session display is
\* max(0, floor((now - start)/1000)) whatever the tick count, and the total of
\* that date grows by exactly that amount.
C5_CheckOutEffect ==
  [][ ( /\ lastOp' = "checkOut"
        /\ isRunning
        /\ Cardinality(RunningDays(storage)) = 1 ) =>
      \A d \in RunningDays(storage) :
        LET start == RunningStart(storage, d)
            dur == WholeSeconds([ start |-> start, end |-> now ])
        IN  /\ getDayState(storage', d).sessions =
                 Append(getDayState(storage, d).sessions,
                        [ start |-> start, end |-> now ])
            /\ IsNull(getDayState(storage', d).running)
            /\ lastSession' = dur
            /\ SumClosed(getDayState(storage', d).sessions) =
                 SumClosed(getDayState(storage, d).sessions) + dur ]_vars

\* C6: recalculateTotal(date) is the sum over the closed sessions of that date
\* of max(0, floor((end - start)/1000)): it is never negative, a checkIn (which
\* only adds a running session) does not change it, and computing it for the
\* newly selected date
\* or at startup shows exactly that sum and leaves the persisted store alone.
C6_RecalculateTotal ==
  [][ /\ \A d \in Days :
           /\ recalcTodayTotal(storage', d) = SumClosed(getDayState(storage', d).sessions)
           /\ recalcTodayTotal(storage', d) >= 0
      /\ lastOp' = "checkIn" =>
           \A d \in Days : recalcTodayTotal(storage', d) = recalcTodayTotal(storage, d)
      /\ (lastOp' = "selectDate" /\ selectedDateISO' # selectedDateISO) =>
           /\ todayTotal' = SumClosed(getDayState(storage, selectedDateISO').sessions)
           /\ storage' = storage
      /\ (lastOp' = "reload" /\ IsNull(autoCheckoutBanner')) =>
           /\ todayTotal' = SumClosed(getDayState(storage, DayOf(now)).sessions)
           /\ storage' = storage ]_vars

\* A date is selected whose ledger holds a closed session of positive length
\* and a closed session whose end precedes its start, and its total is shown.
C6_Witness ==
  /\ lastOp = "selectDate"
  /\ todayTotal > 0
  /\ LET s == getDayState(storage, selectedDateISO).sessions
     IN  /\ Len(s) = 2
         /\ \E i \in 1 .. Len(s) : s[i].end < s[i].start
         /\ todayTotal = SumClosed(s)

\* ================================================ entry and sync claims
TypeOfKind(kind) ==
  IF kind \in { "submitLeave", "deleteLeave", "saveDraftLeave" } THEN "leave" ELSE "work"

ListOfType(type) == IF type = "work" THEN workEntries ELSE leaveEntries

HasId(list, id) == \E k \in 1 .. Len(list) : list[k].id = id

\* The handler that just ran its error branch, ok branch or list branch.
Delivered(i, kind, step) ==
  /\ i \in 1 .. Len(tasks)
  /\ tasks[i].kind = kind
  /\ tasks[i].stage = "resp"
  /\ tasks[i].step = step

\* C7: optimistic delete with rollback: deleting an entry removes it from the
\* local list at once, while the remote store is still untouched and the
\* request is in flight; when the remote delete reports an error, the local
\* list becomes the list as it was immediately before the delete.
C7_OptimisticDeleteRollback ==
  [][ /\ \A type \in { "work", "leave" } :
           lastOp' = (IF type = "work" THEN "deleteWork" ELSE "deleteLeave") =>
             LET t == tasks'[Len(tasks')]
             IN  /\ Len(tasks') = Len(tasks) + 1
                 /\ t.stage = "call"
                 /\ t.call.op = "delete"
                 /\ HasId(ListOfType(type), t.call.id)
                 /\ ~HasId(ListOfType(type)', t.call.id)
                 /\ Len(ListOfType(type)') = Len(ListOfType(type)) - 1
                 /\ remote' = remote
                 /\ t.cap.backup = ListOfType(type)
      /\ lastOp' = "remote" =>
           \A i \in 1 .. Len(tasks) : tasks'[i].cap = tasks[i].cap
      /\ \A type \in { "work", "leave" } :
           LET kind == IF type = "work" THEN "deleteWork" ELSE "deleteLeave"
           IN  lastOp' = kind \o ":error" =>
                 \E i \in 1 .. Len(tasks) :
                   /\ Delivered(i, kind, 1)
                   /\ ~IsNull(tasks[i].res.error)
                   /\ tasks' = RemoveAt(tasks, i)
                   /\ ListOfType(type)' = tasks[i].cap.backup
                   /\ HasId(ListOfType(type)', tasks[i].call.id) ]_vars

\* The remote delete of a work entry failed while the store is provisioned and
\* the list was rolled back to both of its entries.
C7_Witness ==
  /\ lastOp = "deleteWork:error"
  /\ remoteEnabled /\ schemaReady
  /\ Len(workEntries) = 2
  /\ failures = 1

\* C8: refetch after mutation: after every successful create, update or delete
\* the handler re-reads the list of that entry type from the remote store, and
\* the local list is replaced by what was read.
C8_RefetchAfterMutation ==
  [][ /\ lastOp' \in { "submitWork:ok", "updateWork:ok", "submitLeave:ok",
                       "deleteWork:ok", "deleteLeave:ok" } =>
           \E i \in 1 .. Len(tasks') :
             /\ tasks'[i].stage = "call"
             /\ tasks'[i].call.op = "list"
             /\ \E k \in { "submitWork", "updateWork", "submitLeave", "deleteWork",
                           "deleteLeave" } :
                  /\ lastOp' = k \o ":ok"
                  /\ tasks'[i].kind = k
                  /\ tasks'[i].call.type = TypeOfKind(k)
      /\ \A k \in { "submitWork", "submitLeave", "deleteWork", "deleteLeave" } :
           lastOp' = k \o ":list" =>
             \E i \in 1 .. Len(tasks) :
               /\ Delivered(i, k, 2)
               /\ ListOfType(TypeOfKind(k))' = tasks[i].res.data ]_vars

\* A draft that no validator accepts, stated on the form fields themselves.
WorkDraftInvalid ==
  \/ hours \notin { "0", "4", "8", "9", "24" }
  \/ Len(notes) > 500

LeaveDraftInvalid ==
  \/ leaveType = ""
  \/ leaveDuration = ""
  \/ leaveReason \in { "", " " }
  \/ Len(leaveReason) > 300
  \/ (leaveDuration = "partial" /\ leaveHours \notin { "0", "4", "8" })

\* C9: submit of a valid draft, in either mode: with editingEntryId null it
\* issues the creation of one entry with status submitted; with editingEntryId
\* set it issues an update of that entry with status submitted and no
\* creation, and the successful update clears editingEntryId and adds no row.
C9_SubmitCreatesOrUpdates ==
  [][ /\ ( /\ lastOp' \in { "submitWork", "submitLeave" }
           /\ Len(tasks') = Len(tasks) + 1 ) =>
           LET t == tasks'[Len(tasks')]
           IN  IF IsNull(editingId)
               THEN t.call.op = "insert" /\ t.call.status = "submitted"
               ELSE /\ t.call.op = "update"
                    /\ t.call.id = Val(editingId)
                    /\ t.call.patch.status = "submitted"
      /\ lastOp' = "updateWork:ok" => IsNull(editingId')
      /\ lastOp' = "remote" =>
           \A i \in 1 .. Len(tasks) :
             (tasks[i].stage = "call" /\ tasks'[i].stage = "resp") =>
               IF tasks[i].call.op = "insert" /\ IsNull(tasks'[i].res.error)
               THEN /\ Cardinality(remote') = Cardinality(remote) + 1
                    /\ \A r \in remote' \ remote : r.status = "submitted"
               ELSE IF tasks[i].call.op = "update" /\ IsNull(tasks'[i].res.error)
                    THEN /\ Cardinality(remote') = Cardinality(remote)
                         /\ \A r \in remote' \ remote :
                              r.id = tasks[i].call.id /\ r.status = "submitted"
                    ELSE TRUE ]_vars

\* C10: submit with an invalid draft sets the errors of the failing fields and
\* issues no remote call; the draft fields, editingEntryId and the local lists
\* are unchanged.
C10_InvalidSubmit ==
  [][ /\ (lastOp' = "submitWork" /\ WorkDraftInvalid) =>
           /\ workErrors'.hours # "" \/ hours \in { "0", "4", "8", "9", "24" }
           /\ Len(notes) > 500 => workErrors'.notes # ""
      /\ (lastOp' = "submitLeave" /\ LeaveDraftInvalid) =>
           /\ leaveErrors'.leaveReason # "" \/ leaveReason \notin { "", " " }
           /\ leaveErrors'.leaveHours # ""
                \/ leaveDuration # "partial" \/ leaveHours \in { "0", "4", "8" }
      /\ ( \/ (lastOp' = "submitWork" /\ WorkDraftInvalid)
           \/ (lastOp' = "submitLeave" /\ LeaveDraftInvalid) ) =>
           /\ tasks' = tasks
           /\ requests' = requests
           /\ remote' = remote
           /\ workDraft' = workDraft
           /\ leaveDraft' = leaveDraft
           /\ editingId' = editingId
           /\ workEntries' = workEntries
           /\ leaveEntries' = leaveEntries ]_vars

\* An entry is being edited, its hours were changed to 25, and the submit was
\* refused with the hours error while the entry stays under edit.
C10_Witness ==
  /\ lastOp = "submitWork"
  /\ hours = "25"
  /\ workErrors.hours = "Hours cannot exceed 24."
  /\ ~IsNull(editingId)
  /\ Len(tasks) = 0
  /\ Len(workEntries) = 2

\* ================================================ save draft and list claims
\* The draft fields of both forms at their defaults.
DraftsAtDefaults ==
  /\ hours = "" /\ notes = "" /\ project = "" /\ task = ""
  /\ leaveType = "casual" /\ leaveDuration = "full"
  /\ leaveHours = "" /\ leaveReason = ""

\* C11: saveDraft issues the creation of an entry that carries the current
\* draft with status draft, and the remote store then holds it as a draft;
\* after a successful write the handler ends with every draft field at its
\* default; after a failed write an error message is recorded and no step of
\* the handler changes a draft field.
C11_SaveDraft ==
  [][ /\ (lastOp' = "saveDraft" /\ ~IsNull(user)) =>
           LET t == tasks'[Len(tasks')]
           IN  /\ Len(tasks') = Len(tasks) + 1
               /\ t.call.op = "insert"
               /\ t.call.status = "draft"
               /\ t.call.mode = entryMode
               /\ t.call.entry.date = selectedDateISO
               /\ IF entryMode = "work"
                  THEN /\ t.call.entry.project = project
                       /\ t.call.entry.task = task
                       /\ t.call.entry.notes = notes
                       /\ hours \in { "8", "25" } => t.call.entry.hours = Number(hours).n
                  ELSE /\ t.call.entry.leave_type = leaveType
                       /\ t.call.entry.leave_duration = leaveDuration
                       /\ t.call.entry.leave_reason = leaveReason
               /\ workDraft' = workDraft /\ leaveDraft' = leaveDraft
      /\ lastOp' = "remote" =>
           /\ workDraft' = workDraft /\ leaveDraft' = leaveDraft
           /\ \A i \in 1 .. Len(tasks) :
                ( /\ tasks[i].kind \in { "saveDraftWork", "saveDraftLeave" }
                  /\ tasks[i].step = 1
                  /\ tasks[i].stage = "call" /\ tasks'[i].stage = "resp"
                  /\ IsNull(tasks'[i].res.error) ) =>
                  /\ Cardinality(remote' \ remote) = 1
                  /\ remote \subseteq remote'
                  /\ \A r \in remote' \ remote :
                       /\ r.status = "draft"
                       /\ r.type = tasks[i].call.mode
                       /\ r.date = tasks[i].call.entry.date
                       /\ r.user_id = tasks[i].call.entry.user_id
      /\ \A k \in { "saveDraftWork", "saveDraftLeave" } :
           /\ lastOp' = k \o ":ok" =>
                /\ workDraft' = workDraft /\ leaveDraft' = leaveDraft
                /\ \E i \in 1 .. Len(tasks') :
                     tasks'[i].kind = k /\ tasks'[i].step = 2
           /\ lastOp' = k \o ":list" =>
                /\ \E i \in 1 .. Len(tasks) : Delivered(i, k, 2)
                /\ DraftsAtDefaults'
           /\ lastOp' = k \o ":error" =>
                /\ workDraft' = workDraft /\ leaveDraft' = leaveDraft
                /\ IF k = "saveDraftWork"
                   THEN "submit" \in DOMAIN workErrors' /\ workErrors'.submit # ""
                   ELSE "submit" \in DOMAIN leaveErrors' /\ leaveErrors'.submit # ""
                /\ remote' = remote ]_vars

\* A work draft of 8 hours was written as a draft row and the handler has
\* ended after its list re-read, with the hours field cleared.
C11_Witness ==
  /\ lastOp = "saveDraftWork:list"
  /\ hours = ""
  /\ \E r \in remote : r.id >= FirstNewId /\ r.status = "draft" /\ r.hours = 8
  /\ \E k \in 1 .. Len(workEntries) :
       workEntries[k].id >= FirstNewId /\ workEntries[k].status = "draft"

\* The status the local lists show for the entry with this id is approved.
LocallyApproved(id) ==
  \/ \E k \in 1 .. Len(workEntries) :
       workEntries[k].id = id /\ workEntries[k].status = "approved"
  \/ \E k \in 1 .. Len(leaveEntries) :
       leaveEntries[k].id = id /\ leaveEntries[k].status = "approved"

\* C12: approved entries are immutable from the UI: no entry that the local
\* list shows as approved is loaded for edit, and no remote update or remote
\* delete is issued for such an entry.
C12_ApprovedImmutable ==
  [][ /\ (lastOp' \in { "editWork", "editLeave" } /\ ~IsNull(editingId')) =>
           ~LocallyApproved(Val(editingId'))
      /\ Len(tasks') = Len(tasks) + 1 =>
           LET t == tasks'[Len(tasks')]
           IN  t.call.op \in { "update", "delete" } => ~LocallyApproved(t.call.id) ]_vars

\* The handler waiting at position i has just run on from its response.
RanOn(i) ==
  /\ i \in 1 .. Len(tasks)
  /\ tasks[i].stage = "resp"
  /\ lastOp' # "remote"
  /\ \/ tasks' = RemoveAt(tasks, i)
     \/ /\ Len(tasks') = Len(tasks)
        /\ tasks'[i].step = tasks[i].step + 1

\* C13: failed refetch preserves local state: when the response a handler
\* runs on from reports an error, each local list stays as it is or, for the
\* failed delete, goes back to the list from before the delete (the initial
\* load keeps the list of each type whose read failed); a local list never
\* becomes empty while the remote store holds entries of its type.
C13_FailedRefetchPreserves ==
  [][ \A i \in 1 .. Len(tasks) :
        RanOn(i) =>
          IF tasks[i].kind = "fetchAll"
          THEN tasks[i].step = 2 =>
                 /\ ~IsNull(tasks[i].cap.work.error) => workEntries' = workEntries
                 /\ ~IsNull(tasks[i].res.error) => leaveEntries' = leaveEntries
          ELSE ~IsNull(tasks[i].res.error) =>
                 /\ \/ workEntries' = workEntries
                    \/ /\ tasks[i].kind = "deleteWork" /\ tasks[i].step = 1
                       /\ workEntries' = tasks[i].cap.backup
                 /\ \/ leaveEntries' = leaveEntries
                    \/ /\ tasks[i].kind = "deleteLeave" /\ tasks[i].step = 1
                       /\ leaveEntries' = tasks[i].cap.backup
                 /\ (workEntries # <<>> /\ workEntries' = <<>>) =>
                      ~\E r \in remote : r.type = "work"
                 /\ (leaveEntries # <<>> /\ leaveEntries' = <<>>) =>
                      ~\E r \in remote : r.type = "leave" ]_vars

\* ================================================ persistence claims
\* C14: persistence failures never crash: whenever the key is absent,
\* unreadable or holds content that is not a store object, loading yields an
\* empty store, and no startup, checkIn, checkOut or computation of a cell
\* total raises an error.
C14_PersistenceNeverCrashes ==
  [][ /\ KindOf(storage') # "object" =>
           loadTimerState(storage') = EmptyStore
      /\ ~crashed'
      /\ lastOp' \notin { "reload:throws", "checkIn:throws", "checkOut:throws" } ]_vars

\* C15: append-only ledger: with working storage, every step keeps every
\* date of the persisted state, and the closed sessions of each date stay as
\* they are or gain one session at the end; only a checkOut or the startup
\* reconciliation adds one.
C15_AppendOnlyLedger ==
  [][ \A d \in StoredDays(storage) :
        /\ d \in StoredDays(storage')
        /\ LET before == getDayState(storage, d).sessions
               after == getDayState(storage', d).sessions
           IN  /\ Len(after) \in { Len(before), Len(before) + 1 }
               /\ SubSeq(after, 1, Len(before)) = before
               /\ Len(after) = Len(before) + 1 => lastOp' \in { "checkOut", "reload" } ]_vars

\* A checkOut appended a second session behind the first one of its date.
C15_Witness ==
  /\ lastOp = "checkOut"
  /\ \E d \in StoredDays(storage) :
       LET s == getDayState(storage, d).sessions
       IN  Len(s) = 2 /\ s[2].end = now /\ s[1].end <= s[2].start

\* C16: a tick happens only while the display is running and a session is
\* running in the persisted state; it adds one second to the elapsed counter
\* and leaves the persisted state, the last-session value and the total shown
\* as they are.
C16_TickFrame ==
  [][ lastOp' = "tick" =>
        /\ isRunning /\ isRunning'
        /\ RunningDays(storage) # {}
        /\ elapsed' = elapsed + 1
        /\ storage' = storage
        /\ lastSession' = lastSession
        /\ todayTotal' = todayTotal ]_vars

\* A tick was delivered during the second session of a date whose first
\* session is closed and shown in the total.
C16_Witness ==
  /\ lastOp = "tick"
  /\ isRunning
  /\ elapsed > 0
  /\ lastSession > 0
  /\ todayTotal > 0
  /\ ClosedCount(storage) = 1

\* C17: resume on startup: when the page is loaded while the persisted state
\* holds a running session with now < start + 12h, the persisted state is
\* left as it is (the session stays running, nothing is appended), the
\* display is running and the elapsed counter is floor((now - start)/1000),
\* whatever the counter showed before.
C17_ResumeOnStartup ==
  [][ lastOp' = "reload" =>
        \A d \in RunningDays(storage) :
          now < RunningStart(storage, d) + CapMs =>
            /\ storage' = storage
            /\ isRunning'
            /\ elapsed' = (now - RunningStart(storage, d)) \div MsPerSecond ]_vars

\* C18: checkOut is a no-op when the date it is pressed for (the date of the
\* last render) has no running session: the persisted state, the
\* last-session value and the total shown are unchanged.
C18_CheckOutNoOp ==
  [][ (lastOp' = "checkOut" /\ IsNull(getDayState(storage, todayISO).running)) =>
        /\ storage' = storage
        /\ lastSession' = lastSession
        /\ todayTotal' = todayTotal ]_vars

\* Check Out was pressed while the display was running and the date of the
\* last render held no running session; an earlier session is closed and
\* shown.
C18_Witness ==
  /\ lastOp = "checkOut"
  /\ isRunning
  /\ IsNull(getDayState(storage, todayISO).running)
  /\ lastSession > 0
  /\ ClosedCount(storage) = 1

\* C19: switching between the week and the month view never changes the
\* selected date, so a date selected before going to the month view and back
\* to the week view is still selected.
C19_ViewRoundTrip ==
  [][ lastOp' = "setView" =>
        /\ selectedDateISO' = selectedDateISO
        /\ entryDate' = entryDate ]_vars

\* The week view was entered from the month view while a date other than
\* the date of the render is selected.
C19_Witness ==
  /\ lastOp = "setView"
  /\ calendarView = "week"
  /\ selectedDateISO # todayISO
  /\ ~crashed

\* The cells of the week view that are marked as selected.
SelectedCells ==
  { i \in 1 .. 7 : toISO(weekDates(selectedDateISO, tzOffset)[i], tzOffset)
                     = selectedDateISO }

\* C20: in every time zone the week view shows the selected date and marks
\* exactly one of its seven cells as selected.
C20_SelectedDateVisible ==
  (~crashed /\ calendarView = "week") => Cardinality(SelectedCells) = 1

\* The local days of a sequence of Date objects are consecutive and every
\* one of them is 00:00 local time.
ConsecutiveDays(cells, tz) ==
  /\ \A i \in 1 .. Len(cells) : cells[i] = LocalMidnight(LocalDay(cells[i], tz), tz)
  /\ \A i \in 1 .. (Len(cells) - 1) :
       LocalDay(cells[i + 1], tz) = LocalDay(cells[i], tz) + 1

\* C21: getMonthGrid(d) is 42 consecutive dates that start on a Monday on or
\* before the 1st of the month of d and contain the 1st and the last day of
\* that month.
C21_MonthGrid ==
  ~IsNull(fnRet) =>
    LET grid == Val(fnRet)
        m == MonthOf(LocalDay(fnCall.d, tzOffset))
        days == { LocalDay(grid[i], tzOffset) : i \in 1 .. Len(grid) }
    IN  /\ Len(grid) = 42
        /\ ConsecutiveDays(grid, tzOffset)
        /\ LocalDay(grid[1], tzOffset) % 7 = 0
        /\ LocalDay(grid[1], tzOffset) <= FirstOfMonth(m)
        /\ FirstOfMonth(m) \in days
        /\ (FirstOfMonth(m + 1) - 1) \in days

\* The grid was returned for a month of 31 days that starts on a Sunday, in a
\* browser west of UTC, for a Date that is the last ms of a UTC day.
C21_Witness ==
  /\ ~IsNull(fnRet)
  /\ tzOffset < 0
  /\ fnCall.d.ms = MsPerDay - 1
  /\ LET m == MonthOf(LocalDay(fnCall.d, tzOffset))
     IN  /\ FirstOfMonth(m) % 7 = 6
         /\ DaysInMonth(m) = 31

\* C22: getStartOfWeek(date) is 00:00 of the Monday on or before date, at
\* most six days earlier; weekDaysFrom of it is seven consecutive dates from
\* that Monday, so they contain the day of date.
C22_WeekDates ==
  ~IsNull(fnRet) =>
    LET weekStart == Val(fnRet).weekStart
        cells == Val(fnRet).weekDates
        day == LocalDay(fnCall.d, tzOffset)
        monday == LocalDay(weekStart, tzOffset)
    IN  /\ weekStart = LocalMidnight(monday, tzOffset)
        /\ monday % 7 = 0
        /\ monday <= day /\ day - 6 <= monday
        /\ Len(cells) = 7
        /\ cells[1] = weekStart
        /\ ConsecutiveDays(cells, tzOffset)
        /\ \E i \in 1 .. 7 : LocalDay(cells[i], tzOffset) = day

\* The week was returned for a Date that is a Sunday evening local time in a
\* browser west of UTC and a Monday in UTC.
C22_Witness ==
  /\ ~IsNull(fnRet)
  /\ tzOffset < 0
  /\ fnCall.d.ms = 0
  /\ fnCall.d.day % 7 = 0
  /\ LocalDay(fnCall.d, tzOffset) % 7 = 6
  /\ LocalDay(Val(fnRet).weekStart, tzOffset) = LocalDay(fnCall.d, tzOffset) - 6

\* The text of an hours field is present, a number and within 0 .. max.
HoursWithin(s, max) ==
  /\ s # ""
  /\ ~Number(s).isNaN
  /\ 0 <= Number(s).n /\ Number(s).n <= max

\* The fields of a leave other than its hours are all acceptable.
LeaveFieldsPresent(c) ==
  /\ ~IsNull(c.date)
  /\ c.leaveType # ""
  /\ c.leaveDuration # ""
  /\ c.leaveReason \notin { "", " " }
  /\ Len(c.leaveReason) <= 300

\* C23: with date, type, duration and a non-blank reason of at most 300
\* characters, validateLeave reports no error exactly when the duration is
\* not partial or the hours are present, a number and within 0 .. 8; when it
\* reports one, it is on leaveHours.
C23_ValidateLeave ==
  (~IsNull(fnRet) /\ LeaveFieldsPresent(fnCall)) =>
    /\ ~HasError(Val(fnRet)) <=>
         (fnCall.leaveDuration # "partial" \/ HoursWithin(fnCall.leaveHours, 8))
    /\ HasError(Val(fnRet)) => Val(fnRet).leaveHours # ""

\* validateLeave returned for a partial leave of 9 hours whose other fields
\* are acceptable.
C23_Witness ==
  /\ ~IsNull(fnRet)
  /\ LeaveFieldsPresent(fnCall)
  /\ fnCall.leaveDuration = "partial"
  /\ fnCall.leaveHours = "9"
  /\ Val(fnRet).leaveHours = "Hours cannot exceed 8."

\* C24: validateEntryFields reports valid exactly when the date is present,
\* the hours are present, a number and within 0 .. 24, and the notes have at
\* most 500 characters; it has errors exactly when it is not valid, and the
\* project and the task make no difference.
C24_ValidateWork ==
  ~IsNull(fnRet) =>
    LET values == fnCall.values
        res == Val(fnRet)
    IN  /\ res.valid <=>
             /\ ~IsNull(values.date)
             /\ HoursWithin(values.hours, 24)
             /\ Len(values.notes) <= 500
        /\ (Keys(res.errors) # {}) <=> ~res.valid
        /\ res = validateEntryFields([ values EXCEPT !.project = "", !.task = "" ])

\* validateEntryFields returned for 24 hours, notes of 500 characters and a
\* project and a task.
C24_Witness ==
  /\ ~IsNull(fnRet)
  /\ fnCall.values.hours = "24"
  /\ Len(fnCall.values.notes) = 500
  /\ fnCall.values.project # ""
  /\ fnCall.values.task # ""
  /\ Val(fnRet).valid

\* C25: Clear puts the fields of the work draft and of the leave draft at
\* their defaults and leaves edit mode, in either mode, and keeps the selected
\* date, the mode and the panel; Close does the same and hides the panel.
C25_ClearAndClose ==
  [][ lastOp' \in { "clear", "close" } =>
        /\ DraftsAtDefaults'
        /\ IsNull(editingId')
        /\ selectedDateISO' = selectedDateISO
        /\ entryMode' = entryMode
        /\ showEntryPanel' = (lastOp' = "clear") ]_vars

\* Clear was pressed in leave mode for a date other than today's.
C25_Witness ==
  /\ lastOp = "clear"
  /\ entryMode = "leave"
  /\ selectedDateISO # todayISO
  /\ DraftsAtDefaults
  /\ IsNull(editingId)
  /\ showEntryPanel

\* C26: changing the tab of the entry panel changes the mode only: the
\* fields of the work draft and of the leave draft, the entry being edited
\* and the selected date keep their values.
C26_SetModeFrame ==
  [][ lastOp' = "setMode" =>
        /\ entryMode' # entryMode
        /\ << hours, notes, project, task >>' = << hours, notes, project, task >>
        /\ << leaveType, leaveDuration, leaveHours, leaveReason >>'
             = << leaveType, leaveDuration, leaveHours, leaveReason >>
        /\ editingId' = editingId
        /\ selectedDateISO' = selectedDateISO ]_vars

\* The tab was changed to leave while the work form holds hours.
C26_Witness ==
  /\ lastOp = "setMode"
  /\ entryMode = "leave"
  /\ hours # ""

\* The text a field of the form shows for a text column of an entry.
FieldText(v, default) == IF Falsy(v) THEN default ELSE v

\* The state of the page other than the bookkeeping of the model.
PageState ==
  << storage, renderVars, calendarView, activeTab, isRunning, elapsed, lastSession,
     autoCheckoutBanner, dateVars, workDraft, leaveDraft, errorVars, entryMode,
     editingId, showEntryPanel, listVars >>

\* C27: the edit handler of an entry of the local list sets the fields of the
\* draft of the entry's type from the entry, the entry being edited to its
\* id, the selected date to its date and the mode to its type; for an id
\* that is not in the list it changes nothing.
C27_LoadForEdit ==
  [][ /\ lastOp' = "editWork" =>
           /\ ~IsNull(editingId') /\ HasId(workEntries, Val(editingId'))
           /\ LET it == Val(Find(workEntries, Val(editingId')))
              IN  /\ project' = it.project /\ task' = it.task /\ notes' = it.notes
                  /\ Number(hours') = Num(it.hours) /\ hours' # ""
                  /\ selectedDateISO' = it.date
                  /\ entryMode' = "work"
      /\ lastOp' = "editLeave" =>
           /\ ~IsNull(editingId') /\ HasId(leaveEntries, Val(editingId'))
           /\ LET it == Val(Find(leaveEntries, Val(editingId')))
              IN  /\ leaveType' = FieldText(it.leave_type, "casual")
                  /\ leaveDuration' = FieldText(it.leave_duration, "full")
                  /\ leaveReason' = FieldText(it.leave_reason, "")
                  /\ Number(leaveHours') = Num(it.hours) /\ leaveHours' # ""
                  /\ selectedDateISO' = it.date
                  /\ entryMode' = "leave"
      /\ lastOp' \in { "editWork:none", "editLeave:none" } =>
           PageState' = PageState ]_vars

\* The fetchAll whose response is handled in this step: it has made both of
\* its requests and leaves the requests under way.
FetchAllCompletes(i) ==
  /\ i \in 1 .. Len(tasks)
  /\ tasks[i].kind = "fetchAll"
  /\ tasks[i].stage = "resp"
  /\ tasks[i].step = 2
  /\ tasks' = RemoveAt(tasks, i)

\* The one error of a remote store that is not available.
DataNotAvailable(code) == Some([ message |-> "Data not available yet", code |-> code ])

UnavailableCodes == { "feature_disabled", "missing_schema" }

\* The call reaches the client: only createOrSaveDraftEntry refuses a call,
\* one with a mode that is neither work nor leave.
ReachesClient(c) == IF c.op = "insert" THEN c.mode \in { "work", "leave" } ELSE TRUE

\* The store answered that its table is missing.
SchemaMissing(outcome) ==
  IF outcome.kind = "error" THEN outcome.error \in SchemaMissingErrors ELSE FALSE

\* The request failed for another reason than a missing table.
OtherFailure(outcome) == outcome.kind # "ok" /\ ~SchemaMissing(outcome)

\* The message of the error the client returned or threw.
OriginalMessage(outcome) ==
  IF outcome.kind = "throws" THEN outcome.message ELSE outcome.error.message

\* part_003:134, 193, 249, 270  the message of a service for an error thrown
\* without one.
DefaultMessage(op) ==
  CASE op = "list" -> "Failed to fetch time entries"
    [] op = "insert" -> "Failed to create/save entry"
    [] op = "update" -> "Failed to update time entry"
    [] op = "delete" -> "Failed to delete time entry"

\* The errors of the two lists the completing fetchAll i has read, that of
\* the work list first.
ListErrors(i) ==
  SelectSeq(<< tasks[i].cap.work.error, tasks[i].res.error >>, LAMBDA e : ~IsNull(e))

\* What the claim says of the service that returns in this step, but for
\* the message of the other errors.
UnavailableIsNormalized ==
  lastOp' = "service" =>
    LET c == fnCall.call
        outcome == fnCall.outcome
        e == Val(fnRet').error
    IN  /\ ~remoteEnabled => e = DataNotAvailable("feature_disabled")
        /\ (remoteEnabled /\ ReachesClient(c) /\ SchemaMissing(outcome)) =>
             e = DataNotAvailable("missing_schema")
        /\ (remoteEnabled /\ ReachesClient(c) /\ OtherFailure(outcome)) =>
             ~IsNull(e) /\ Val(e).code \notin UnavailableCodes

\* C28 as the claim states it: every list, create, update and delete that
\* fails with feature_disabled or missing_schema returns the one message
\* 'Data not available yet', and so does the banner of the lists; every
\* other error of the remote store is returned, and shown in the banner,
\* with the message it came with.
C28_OriginalMessageUnchanged ==
  [][ /\ UnavailableIsNormalized
      /\ ( /\ lastOp' = "service"
           /\ remoteEnabled
           /\ ReachesClient(fnCall.call)
           /\ OtherFailure(fnCall.outcome) ) =>
             Val(Val(fnRet').error).message = OriginalMessage(fnCall.outcome)
      /\ \A i \in 1 .. Len(tasks) :
           (lastOp' = "fetchAll:done" /\ FetchAllCompletes(i)) =>
             IF \E k \in 1 .. Len(ListErrors(i)) :
                  Val(ListErrors(i)[k]).code \in UnavailableCodes
             THEN logsError' = "Data not available yet"
             ELSE IF ListErrors(i) = << >> THEN logsError' = ""
             ELSE \E k \in 1 .. Len(ListErrors(i)) :
                    logsError' = Val(ListErrors(i)[k]).message ]_vars

\* C28, amended: every list, create, update and delete that fails with
\* feature_disabled or missing_schema returns the one message 'Data not
\* available yet', and so does the banner of the lists when either list
\* failed so; every other error of the remote store is returned with the
\* message it came with, but that an error thrown without a message is
\* returned with the default message of the operation, and the banner shows
\* the first message the two lists returned, or 'Failed to load entries'
\* when they returned none.
C28_ErrorNormalization ==
  [][ /\ UnavailableIsNormalized
      /\ ( /\ lastOp' = "service"
           /\ remoteEnabled
           /\ ReachesClient(fnCall.call)
           /\ OtherFailure(fnCall.outcome) ) =>
             Val(Val(fnRet').error).message =
               (IF fnCall.outcome.kind = "throws" /\ OriginalMessage(fnCall.outcome) = ""
                THEN DefaultMessage(fnCall.call.op)
                ELSE OriginalMessage(fnCall.outcome))
      /\ \A i \in 1 .. Len(tasks) :
           (lastOp' = "fetchAll:done" /\ FetchAllCompletes(i)) =>
             LET said == SelectSeq(ListErrors(i), LAMBDA e : Val(e).message # "")
             IN  IF \E k \in 1 .. Len(ListErrors(i)) :
                      Val(ListErrors(i)[k]).code \in UnavailableCodes
                 THEN logsError' = "Data not available yet"
                 ELSE IF ListErrors(i) = << >> THEN logsError' = ""
                 ELSE IF said = << >> THEN logsError' = "Failed to load entries"
                 ELSE logsError' = Val(said[1]).message ]_vars

\* An update was called while the table is missing, the store said so in
\* words only, and the service returned the error missing_schema.
C28_Witness ==
  /\ lastOp = "service"
  /\ remoteEnabled
  /\ fnCall.call.op = "update"
  /\ fnCall.outcome = Returned(MissingRelationError)
  /\ Val(fnRet).error = DataNotAvailable("missing_schema")

\* A result of a service is the error feature_disabled, without data.
IsFeatureDisabled(res) ==
  /\ ~IsNull(res.error)
  /\ Val(res.error).code = "feature_disabled"
  /\ res.data = <<>>

\* C29: while the remote store is not enabled, every list, create, save
\* draft, update and delete returns the error feature_disabled, a list
\* returns no entries, the rows of the remote store are never touched, and
\* the page shows empty lists and does not fail.
C29_FeatureDisabled ==
  ~remoteEnabled =>
    /\ \A i \in 1 .. Len(tasks) :
         tasks[i].stage = "resp" => IsFeatureDisabled(tasks[i].res)
    /\ ~IsNull(fnRet) => IsFeatureDisabled(Val(fnRet))
    /\ remote = InitialRows /\ nextId = FirstNewId /\ failures = 0
    /\ workEntries = <<>> /\ leaveEntries = <<>>
    /\ ~crashed

\* With the remote store disabled, a delete was called on its own and
\* returned, the lists were read, and a submission of the form has returned.
C29_Witness ==
  /\ ~remoteEnabled
  /\ ~IsNull(fnRet)
  /\ fnCall.call.op = "delete"
  /\ ~logsLoading
  /\ logsError = "Data not available yet"
  /\ \E i \in 1 .. Len(tasks) :
       tasks[i].stage = "resp" /\ tasks[i].call.op = "insert"

\* C30: selecting a date, changing the view and the Today button never
\* change the persisted timer state: no sessions and no running session of
\* any date.
C30_CalendarReadOnly ==
  [][ lastOp' \in { "selectDate", "setView", "today" } => storage' = storage ]_vars

\* The Today button was pressed in the month view while a session is running
\* and another one is stored as closed.
C30_Witness ==
  /\ lastOp = "today"
  /\ calendarView = "month"
  /\ RunningDays(storage) # {}
  /\ ClosedCount(storage) = 1

\* The hours of a leave are 8 for a full day and within 0 .. 8 for a part of
\* a day.
LeaveHoursOk(duration, h) ==
  IF duration = "partial" THEN 0 <= h /\ h <= 8 ELSE h = 8

\* C31: every leave that Submit sends to the remote store carries 8 hours
\* when its duration is full and the hours of the form, within 0 .. 8, when
\* it is partial, and the remote store holds it so.
C31_LeaveHours ==
  [][ /\ (lastOp' = "submitLeave" /\ Len(tasks') > Len(tasks)) =>
           LET c == tasks'[Len(tasks')].call
               sent == InsertPayload(c.entry, c.mode, c.status)
           IN  /\ c.op = "insert"
               /\ sent.type = "leave"
               /\ sent.leave_duration = leaveDuration
               /\ LeaveHoursOk(leaveDuration, sent.hours)
               /\ leaveDuration = "partial" =>
                    (leaveHours # "" /\ Number(leaveHours) = Num(sent.hours))
      /\ lastOp' = "remote" =>
           \A r \in remote' \ remote :
             (r.type = "leave" /\ r.status = "submitted") =>
               LeaveHoursOk(r.leave_duration, r.hours) ]_vars

\* The remote store holds a new partial leave of 0 hours, and one of 8 hours
\* was refused by the form before.
C31_Witness ==
  /\ lastOp = "remote"
  /\ \E r \in remote :
       /\ r.id >= FirstNewId /\ r.type = "leave" /\ r.status = "submitted"
       /\ r.leave_duration = "partial" /\ r.hours = 0

\* C32: after every operation the display is running exactly when the stored
\* ledger holds a running session that handleCheckOut is able to close, which
\* is one under the date the handler reads, todayISO.
C32_RunningMatchesLedger ==
  ~crashed =>
    (isRunning <=> ~IsNull(getDayState(storage, todayISO).running))

\* C33: the total on display is always the sum of the closed sessions of the
\* selected date, also when a session of another date was just closed.
C33_TotalOfSelectedDate ==
  ~crashed =>
    todayTotal = SumClosed(getDayState(storage, selectedDateISO).sessions)

\* The local calendar date of the clock reading, which the Today button
\* selects.
LocalToday == toISO(DateOf(now), tzOffset)

\* C34: one notion of today: in every time zone the date selected at startup
\* and the date under which checkIn and checkOut file a session are the local
\* calendar date that the Today button selects.
C34_OneToday ==
  [][ /\ lastOp = "init" => selectedDateISO = LocalToday
      /\ (lastOp' = "checkIn" /\ storage' # storage) =>
           RunningDays(storage') \ RunningDays(storage) = { LocalToday }
      /\ (lastOp' = "checkOut" /\ storage' # storage) =>
           RunningDays(storage) \ RunningDays(storage') = { LocalToday }
      /\ lastOp' = "today" => selectedDateISO' = LocalToday ]_vars

\* The type of the row of the remote store with this id, "" when there is
\* none.
RemoteTypeOf(rows, id) ==
  IF \E r \in rows : r.id = id
  THEN (CHOOSE r \in rows : r.id = id).type
  ELSE ""

\* C35: Submit never changes the type of a remote entry: an update is issued
\* only for an entry of the type of the active mode, and no row of the remote
\* store changes its type.
C35_SubmitKeepsType ==
  [][ /\ ( /\ lastOp' \in { "submitWork", "submitLeave" }
           /\ Len(tasks') > Len(tasks)
           /\ tasks'[Len(tasks')].call.op = "update" ) =>
           RemoteTypeOf(remote, tasks'[Len(tasks')].call.id) \in { "", entryMode }
      /\ \A r \in remote : RemoteTypeOf(remote', r.id) \in { "", r.type } ]_vars

\* The ids of the entries of a list, and of the rows of a type of the remote
\* store.
IdsOf(list) == { list[k].id : k \in 1 .. Len(list) }

RemoteIds(rows, type) == { r.id : r \in { x \in rows : x.type = type } }

\* C36: overlapping deletes converge: the rollback of a failed delete never
\* brings back an entry that the remote store no longer holds, never drops an
\* entry of the list that the remote store holds, and when it was the last
\* request to complete the list holds the entries of the remote store.
C36_OverlappingDeletes ==
  [][ \A type \in { "work", "leave" } :
        ( lastOp' = (IF type = "work" THEN "deleteWork:error"
                                      ELSE "deleteLeave:error") ) =>
          LET before == IF type = "work" THEN workEntries ELSE leaveEntries
              after == IF type = "work" THEN workEntries' ELSE leaveEntries'
              stored == RemoteIds(remote', type)
          IN  /\ IdsOf(after) \ IdsOf(before) \subseteq stored
              /\ IdsOf(before) \cap stored \subseteq IdsOf(after)
              /\ tasks' = << >> => IdsOf(after) = stored ]_vars

\* C37: checkIn, checkOut and the startup reconciliation change the ledger of
\* the current date only: the sessions and the running session stored under
\* every other date stay as they are.
C37_OtherDatesUnchanged ==
  [][ lastOp' \in { "checkIn", "checkOut", "reload" } =>
        LET current == IF lastOp' = "reload" THEN DayOf(now) ELSE todayISO
        IN  \A d \in (StoredDays(storage) \cup StoredDays(storage')) \ { current } :
              /\ d \in StoredDays(storage)
              /\ d \in StoredDays(storage')
              /\ getDayState(storage', d).sessions = getDayState(storage, d).sessions
              /\ getDayState(storage', d).running = getDayState(storage, d).running ]_vars

\* A checkIn wrote a running session under its date while another date holds
\* a closed session.
C37_Witness ==
  /\ lastOp = "checkIn"
  /\ ~IsNull(getDayState(storage, todayISO).running)
  /\ Val(getDayState(storage, todayISO).running).start = now
  /\ \E d \in StoredDays(storage) \ { todayISO } :
       Len(getDayState(storage, d).sessions) = 1

\* C38: the 12-hour cap bounds every recorded session: every closed session
\* of the ledger has start <= end and end - start <= 12 hours.
C38_CapBoundsSessions ==
  \A d \in StoredDays(storage) :
    LET s == getDayState(storage, d).sessions
    IN  \A k \in 1 .. Len(s) :
          /\ s[k].start <= s[k].end
          /\ s[k].end - s[k].start <= 12 * 3600 * 1000

\* C39: stale list responses are discarded: a fetchAll whose user object is
\* not the one the dashboard shows now (the user changed, or the dashboard
\* was unmounted, mounted again or not) leaves the work and the leave list
\* as they are when it completes, whatever completed before it; the lists
\* change only when the fetch of the current user object completes, and no
\* fetch was started after that one.
C39_StaleResponsesDiscarded ==
  [][ \A i \in 1 .. Len(tasks) :
        FetchAllCompletes(i) =>
          /\ tasks[i].cap.user # user =>
                workEntries' = workEntries /\ leaveEntries' = leaveEntries
          /\ (workEntries' # workEntries \/ leaveEntries' # leaveEntries) =>
                /\ tasks[i].cap.user = user
                /\ \A j \in 1 .. Len(tasks) :
                      (j # i /\ tasks[j].kind = "fetchAll") => j < i ]_vars

\* The response for the first user arrived after the second user signed in
\* and the lists of the second user were shown; the lists still hold the
\* entry of the second user.
C39_Witness ==
  /\ lastOp = "fetchAll:stale"
  /\ ~IsNull(user)
  /\ Val(user).id = "u2"
  /\ tasks = << >>
  /\ IdsOf(workEntries) = { 4 }
  /\ leaveEntries = << >>

====
